---- MODULE Spec2Model ----
(***************************************************************************)
(* Yield analytics core of the market-data repository.                     *)
(*                                                                         *)
(* calculate_tir (src/src/domain/financial_math.py) is modelled as a state *)
(* machine: one action per return path of the function and one action per  *)
(* pass of its Newton loop.                                                *)
(* calculate_irr_from_price_and_payoff (src/domain/financial_math.py) and  *)
(* _calculate_rates_from_api_tir (src/application/bond_analyzer.py) are    *)
(* modelled as one action per call, returning a dictionary of rates.       *)
(*                                                                         *)
(* Decimal values are modelled as decimal floating-point numbers           *)
(* [k, m, e] with value m * 10^e and a mantissa of Prec significant        *)
(* digits, rounded after every operation as the decimal module does.  The  *)
(* source runs with getcontext().prec = 50; the model runs the             *)
(* same arithmetic with the shorter mantissa Prec.  Every literal of the   *)
(* source (0.1, 1e-9, 365.0, 1.0, 100) is represented exactly.             *)
(***************************************************************************)
EXTENDS Integers, Sequences, FiniteSets, TLC

\* Significant digits of the model's Decimal context (the source uses 50).
Prec == 3

\* for i in range(100)
MaxIter == 100

\* ACT/365 day count: Decimal("365.0")
DayCount == 365

\* Longest cash-flow list drawn as an input.
MaxFlows == 2

\* Calls of calculate_tir a caller makes on one schedule.
MaxCalls == 2

----------------------------------------------------------------------------
(* Decimal arithmetic *)

Pow10(n) == 10 ^ n

RECURSIVE NumDigits(_)
NumDigits(n) == IF n < 10 THEN 1 ELSE 1 + NumDigits(n \div 10)

AbsInt(n) == IF n < 0 THEN -n ELSE n

Zero == [k |-> "num", m |-> 0, e |-> 0]

\* Decimal("NaN")
NaN == [k |-> "nan", m |-> 0, e |-> 0]

\* Python's None
None == [k |-> "none", m |-> 0, e |-> 0]

IsNum(x) == x.k = "num"

\* x.is_nan()
IsNaN(x) == x.k = "nan"

\* The rounding of the decimal context.  src/src/domain/financial_math.py
\* leaves the default; src/domain/financial_math.py and
\* src/application/bond_analyzer.py set ROUND_HALF_UP.
HalfEven == "ROUND_HALF_EVEN"

HalfUp == "ROUND_HALF_UP"

\* Shorten the coefficient n (n >= 10^Prec) to Prec digits; sticky says
\* that non-zero digits below n were already dropped.
RoundCoeff(n, sticky, rounding) ==
    LET drop == NumDigits(n) - Prec
        unit == Pow10(drop)
        q    == n \div unit
        r    == n % unit
        half == 5 * Pow10(drop - 1)
        up   == \/ r > half
                \/ r = half /\ sticky
                \/ r = half /\ ~sticky /\ rounding = HalfUp
                \/ r = half /\ ~sticky /\ rounding = HalfEven /\ q % 2 = 1
        q2   == IF up THEN q + 1 ELSE q
    IN  IF q2 = Pow10(Prec)
        THEN [m |-> Pow10(Prec - 1), de |-> drop + 1]
        ELSE [m |-> q2, de |-> drop]

\* The Decimal of sign sg (1 or -1), coefficient n >= 0 and exponent e,
\* rounded to the context precision and written with a full mantissa.
Norm(sg, n, e, sticky, rounding) ==
    IF n = 0 THEN Zero
    ELSE IF n < Pow10(Prec)
         THEN LET up == Prec - NumDigits(n)
              IN  [k |-> "num", m |-> sg * n * Pow10(up), e |-> e - up]
         ELSE LET rc == RoundCoeff(n, sticky, rounding)
              IN  [k |-> "num", m |-> sg * rc.m, e |-> e + rc.de]

\* Decimal("<n>e<e>") for a literal with at most Prec digits.
Dec(n, e) == Norm(IF n < 0 THEN -1 ELSE 1, AbsInt(n), e, FALSE, HalfEven)

SignOf(x) == IF x.m > 0 THEN 1 ELSE IF x.m < 0 THEN -1 ELSE 0

FNeg(x) == IF IsNum(x) THEN [x EXCEPT !.m = -x.m] ELSE x

\* abs(x)
FAbs(x) == IF IsNum(x) THEN [x EXCEPT !.m = AbsInt(x.m)] ELSE x

\* x * y under a rounding
Mul(x, y, rounding) ==
    IF ~IsNum(x) \/ ~IsNum(y) THEN NaN
    ELSE Norm(SignOf(x) * SignOf(y), AbsInt(x.m) * AbsInt(y.m), x.e + y.e,
              FALSE, rounding)

\* x / y for y # 0 under a rounding
Div(x, y, rounding) ==
    IF ~IsNum(x) \/ ~IsNum(y) \/ y.m = 0 THEN NaN
    ELSE LET num == AbsInt(x.m) * Pow10(Prec + 1)
             q   == num \div AbsInt(y.m)
             r   == num % AbsInt(y.m)
         IN  Norm(SignOf(x) * SignOf(y), q, x.e - y.e - (Prec + 1), r # 0,
                  rounding)

\* x + y with x.e >= y.e, both non-zero
AddAligned(x, y, rounding) ==
    LET d == x.e - y.e
    IN  IF d > Prec + 1 THEN x
        ELSE LET s == x.m * Pow10(d) + y.m
             IN  Norm(IF s < 0 THEN -1 ELSE 1, AbsInt(s), y.e, FALSE, rounding)

\* x + y under a rounding
Add(x, y, rounding) ==
    IF ~IsNum(x) \/ ~IsNum(y) THEN NaN
    ELSE IF x.m = 0 THEN y
    ELSE IF y.m = 0 THEN x
    ELSE IF x.e >= y.e THEN AddAligned(x, y, rounding)
    ELSE AddAligned(y, x, rounding)

\* x ** n for a whole exponent n >= 0, by squaring
RECURSIVE Pow(_, _, _)
Pow(x, n, rounding) ==
    IF n = 0 THEN Norm(1, 1, 0, FALSE, rounding)
    ELSE LET h  == Pow(x, n \div 2, rounding)
             h2 == Mul(h, h, rounding)
         IN  IF n % 2 = 0 THEN h2 ELSE Mul(h2, x, rounding)

\* The operators of src/src/domain/financial_math.py (default rounding).
FMul(x, y) == Mul(x, y, HalfEven)

FDiv(x, y) == Div(x, y, HalfEven)

FAdd(x, y) == Add(x, y, HalfEven)

\* x - y
FSub(x, y) == FAdd(x, FNeg(y))

\* x < y, x <= y and x = y on numbers (exact, as Decimal comparison is)
FLt(x, y) == SignOf(FSub(x, y)) < 0

FLe(x, y) == SignOf(FSub(x, y)) <= 0

FEq(x, y) == SignOf(FSub(x, y)) = 0

One == Dec(1, 0)

FPow(x, n) == Pow(x, n, HalfEven)

\* The operators of src/domain/financial_math.py and
\* src/application/bond_analyzer.py (ROUND_HALF_UP).
HMul(x, y) == Mul(x, y, HalfUp)

HDiv(x, y) == Div(x, y, HalfUp)

HAdd(x, y) == Add(x, y, HalfUp)

HSub(x, y) == HAdd(x, FNeg(y))

HPow(x, n) == Pow(x, n, HalfUp)

\* The largest mantissa m in lo..hi-1 with (m * 10^e) ** n <= x, given
\* that lo is one.
RECURSIVE RootSearch(_, _, _, _, _, _)
RootSearch(x, n, e, lo, hi, rounding) ==
    IF hi - lo <= 1 THEN lo
    ELSE LET mid == (lo + hi) \div 2
         IN  IF FLe(Pow([k |-> "num", m |-> mid, e |-> e], n, rounding), x)
             THEN RootSearch(x, n, e, mid, hi, rounding)
             ELSE RootSearch(x, n, e, lo, mid, rounding)

\* The value of a one-element set: an intermediate result that the
\* source stores in a local variable is computed once and then named.
Only(S) == CHOOSE v \in S : TRUE

\* Of below and the next mantissa above it, the one whose n-th power is
\* nearer to x.
NearerRoot(x, n, below, rounding) ==
    LET above == Norm(1, below.m + 1, below.e, FALSE, rounding)
        short == Add(x, FNeg(Pow(below, n, rounding)), rounding)
        over  == Add(Pow(above, n, rounding), FNeg(x), rounding)
    IN  IF FLt(over, short) THEN above ELSE below

\* x ** (1 / n) for x >= 0 under a rounding: the n-th root of x to Prec
\* digits.
Root(x, n, rounding) ==
    IF ~IsNum(x) THEN NaN
    ELSE IF x.m = 0 THEN Zero
    ELSE LET lead == x.e + Prec - 1
             e    == (lead \div n) - (Prec - 1)
         IN  Only({NearerRoot(x, n, [k |-> "num", m |-> m, e |-> e], rounding) :
                      m \in {RootSearch(x, n, e, Pow10(Prec - 1), Pow10(Prec),
                                        rounding)}})

\* x ** (Decimal("1") / Decimal(n)) under ROUND_HALF_UP
HRoot(x, n) == Root(x, n, HalfUp)

\* x ** (Decimal(1) / Decimal(n)) under the default rounding
FRoot(x, n) == Root(x, n, HalfEven)

----------------------------------------------------------------------------
(* calculate_tir: inputs *)

\* Calendar dates are day ordinals; the model draws them a whole number of
\* 365-day years apart, so that days / Decimal("365.0") is a whole number.
DateSet == {0, DayCount, 40 * DayCount}

SettlementSet == {0, DayCount}

AmountSet == {Zero, Dec(1, -7), Dec(1, 0)}

PriceSet == {Dec(-1, 0), Zero, Dec(1, -10), Dec(9, -8), Dec(905, -10),
             Dec(999, -3), Dec(3, 0)}

\* One (date, amount) tuple of the cashflows argument.
CashFlowEntry == [date : DateSet, amount : AmountSet]

RECURSIVE SeqsUpTo(_, _)
SeqsUpTo(S, n) ==
    IF n = 0 THEN {<<>>}
    ELSE LET shorter == SeqsUpTo(S, n - 1)
         IN  shorter \cup {Append(q, x) : q \in {t \in shorter : Len(t) = n - 1}, x \in S}

CashFlowSchedules == SeqsUpTo(CashFlowEntry, MaxFlows)

----------------------------------------------------------------------------
(* calculate_tir: the pure parts *)

\* guess = Decimal("0.1")
Seed == Dec(1, -1)

\* Decimal("1e-9")
Tol == Dec(1, -9)

\* Variant: the filter keeps a flow dated on the settlement date.
FutureCashflowsOnOrAfter(cfs, settle) ==
    SelectSeq(cfs, LAMBDA cf : cf.date >= settle)

\* the list built by lines 21-29: the flows dated after settlement
FutureCashflows(cfs, settle) == SelectSeq(cfs, LAMBDA cf : cf.date > settle)

\* exponent = days / Decimal("365.0"), a whole number of years in the model
Exponent(cf, settle) == (cf.date - settle) \div DayCount

\* Variant: only a denominator of exactly zero is rejected.
OutOfDomainZeroOnly(rate) == FEq(FAdd(One, rate), Zero)

\* Decimal("1.0") + rate <= 0
OutOfDomain(rate) == FLe(FAdd(One, rate), Zero)

\* total_npv after the for loop of npv over flows[1..n]
RECURSIVE NpvSum(_, _, _, _)
NpvSum(flows, n, settle, rate) ==
    IF n = 0 THEN Zero
    ELSE FAdd(NpvSum(flows, n - 1, settle, rate),
              FDiv(flows[n].amount,
                   FPow(FAdd(One, rate), Exponent(flows[n], settle))))

\* npv(rate)
Npv(flows, settle, px, rate) ==
    IF OutOfDomain(rate) THEN NaN
    ELSE FSub(NpvSum(flows, Len(flows), settle, rate), px)

\* total_d_npv after the for loop of d_npv over flows[1..n]
RECURSIVE DNpvSum(_, _, _, _)
DNpvSum(flows, n, settle, rate) ==
    IF n = 0 THEN Zero
    ELSE FSub(DNpvSum(flows, n - 1, settle, rate),
              FDiv(FMul(flows[n].amount, Dec(Exponent(flows[n], settle), 0)),
                   FPow(FAdd(One, rate), Exponent(flows[n], settle) + 1)))

\* d_npv(rate)
DNpv(flows, settle, rate) ==
    IF OutOfDomain(rate) THEN NaN
    ELSE DNpvSum(flows, Len(flows), settle, rate)

\* new_guess = guess - npv_val / d_npv_val
NewGuess(g, nv, dv) == FSub(g, FDiv(nv, dv))

----------------------------------------------------------------------------
(* Rate bundles: calculate_irr_from_price_and_payoff of                    *)
(* src/domain/financial_math.py and _calculate_rates_from_api_tir of       *)
(* src/application/bond_analyzer.py                                        *)

\* current_price, final_payoff as Decimal(str(...)) of the arguments
RatePriceSet == {NaN, Zero, Dec(9, -1), One, Dec(3, 0)}

PayoffSet == {NaN, Dec(-1, 0), One, Dec(2, 0)}

\* days_to_maturity: values for which Decimal("365") / days is a whole
\* number or the reciprocal of one
DaysSet == {0, 73, DayCount, 2 * DayCount}

\* method: anything but "simple" takes the compound branch
MethodSet == {"compound", "simple", "other"}

\* api_tir_as_tea
ApiTirSet == {None, NaN, Dec(-2, 0), Dec(-1, 0), Dec(-5, -1), Zero,
              Dec(1, -1), One}

\* no dictionary at all
NoBundle == [f \in {} |-> None]

\* {"TIR": None, "TEA": None, "TEM": None, "TNA": None} of line 68
InvalidInputsBundle == [TIR |-> None, TEA |-> None, TEM |-> None, TNA |-> None]

\* Variant: the handler returns what had been computed before the exception.
IrrOnExceptionPartial(tir, tea) ==
    [TIR |-> tir, TEA |-> tea, TEM |-> None, TNA |-> None]

\* the dictionary returned by the except clause, lines 107-109, reached
\* with the locals tir and tea as they stood
IrrOnException(tir, tea) ==
    [TIR |-> None, TEA |-> None, TEM |-> None, TNA |-> None]

\* current_price <= 0 or final_payoff <= 0 or days_to_maturity <= 0
InvalidInputs(px, payoff, days) ==
    FLe(px, Zero) \/ FLe(payoff, Zero) \/ days <= 0

\* simple_return * (Decimal("365") / days_decimal), lines 74-75
SimpleTir(px, payoff, days) ==
    HMul(HDiv(HSub(payoff, px), px), HDiv(Dec(DayCount, 0), Dec(days, 0)))

\* x ** (Decimal("365") / days_decimal)
AnnualPower(x, days) ==
    IF DayCount % days = 0 THEN HPow(x, DayCount \div days)
    ELSE HRoot(x, days \div DayCount)

\* price_ratio = final_payoff / current_price
PriceRatio(px, payoff) == HDiv(payoff, px)

\* price_ratio ** exponent - Decimal("1"), lines 85-89
CompoundTir(px, payoff, days) ==
    Only({HSub(power, One) :
             power \in {AnnualPower(ratio, days) : ratio \in {PriceRatio(px, payoff)}}})

\* (Decimal("1") + tea) ** (Decimal("1") / Decimal("12")) - Decimal("1")
MonthlyRate(tea) ==
    Only({HSub(root, One) : root \in {HRoot(base, 12) : base \in {HAdd(One, tea)}}})

\* tem * Decimal("12")
NominalRate(tem) == HMul(tem, Dec(12, 0))

\* Variant: TNA is annualised from TEA instead of TEM * 12.
RatesOfNominalFromTea(tir) ==
    Only({[TIR |-> tir, TEA |-> tir, TEM |-> tem, TNA |-> tir] :
             tem \in {MonthlyRate(tir)}})

\* tem, tna and the dictionary of lines 95-105 for tea = tir
RatesOf(tir) ==
    Only({[TIR |-> tir, TEA |-> tir, TEM |-> tem, TNA |-> NominalRate(tem)] :
             tem \in {MonthlyRate(tir)}})

\* Lines 72-109 once tir has been computed: a negative 1 + tea makes the
\* power of line 95 raise InvalidOperation, which lands in the except
\* clause.
IrrAfterTir(tir) ==
    IF FLt(HAdd(One, tir), Zero)
    THEN [exit |-> "exception", bundle |-> IrrOnException(tir, tir)]
    ELSE [exit |-> "ok", bundle |-> RatesOf(tir)]

\* The outcome of calculate_irr_from_price_and_payoff: the dictionary it
\* returns and the return statement that built it.  A NaN argument makes
\* the comparison of line 66 raise InvalidOperation, which lands in the
\* except clause.
IrrOutcome(px, payoff, days, method) ==
    IF IsNaN(px) \/ IsNaN(payoff)
    THEN [exit |-> "exception", bundle |-> IrrOnException(None, None)]
    ELSE IF InvalidInputs(px, payoff, days)
    THEN [exit |-> "invalid", bundle |-> InvalidInputsBundle]
    ELSE Only({IrrAfterTir(tir) :
                  tir \in {IF method = "simple" THEN SimpleTir(px, payoff, days)
                           ELSE CompoundTir(px, payoff, days)}})

\* api_tir_as_tea is None or api_tir_as_tea < Decimal("-1")
InvalidApiTir(api) == api = None \/ FLt(api, Dec(-1, 0))

\* The outcome of _calculate_rates_from_api_tir for an argument that is
\* None or a number.
ApiOutcome(api) ==
    IF InvalidApiTir(api)
    THEN [exit |-> "invalid",
          bundle |-> [TNA |-> None, TEA |-> None, TEM |-> None]]
    ELSE [exit |-> "ok",
          bundle |-> Only({[TNA |-> NominalRate(tem), TEA |-> api, TEM |-> tem] :
                              tem \in {MonthlyRate(api)}})]

----------------------------------------------------------------------------
(* Rate converters: the static methods of FinancialCalculator              *)
(* (src/domain/financial_math.py, on Python floats), convert_tirea_to_tem,  *)
(* convert_tem_to_tea and convert_tem_to_tna                               *)
(* (src/src/domain/financial_math.py, on Decimal) and                      *)
(* calculate_tem_from_tea (src/utils/helpers.py, on Decimal).              *)
(* A float is modelled like a Decimal: a floating-point number with a      *)
(* mantissa of Prec digits, rounded half-even after every operation.       *)

\* an exception left the function
Raised == [k |-> "raised", m |-> 0, e |-> 0]

MinusOne == Dec(-1, 0)

\* rates passed to the converters
RateArgSet == {NaN, Dec(-2, 0), MinusOne, Dec(-5, -1), Zero, Dec(123, -4),
               Dec(1, -1), Dec(5, -1), One, Dec(2, 0)}

\* days_to_maturity passed to calculate_tea_from_tir; 365 / days is a
\* whole number for the positive ones
ConverterDaysSet == {-DayCount, 0, 73, DayCount}

\* compounding_frequency
FrequencySet == {-1, 0, 2, 12}

\* x <= y on floats and on Decimals that are not NaN: false for a NaN
NumLe(x, y) == IsNum(x) /\ IsNum(y) /\ FLe(x, y)

\* Variant: only tir < -1 is out of the domain.
TeaFromTirStrictGuard(tir, days) ==
    IF (IsNum(tir) /\ FLt(tir, MinusOne)) \/ days <= 0 THEN Zero
    ELSE Only({FSub(FPow(base, DayCount \div days), One) :
                  base \in {FAdd(One, tir)}})

\* Variant: the growth factor is returned, the 1 is not taken off.
TeaFromTirGrowthFactor(tir, days) ==
    IF NumLe(tir, MinusOne) \/ days <= 0 THEN Zero
    ELSE Only({FPow(base, DayCount \div days) : base \in {FAdd(One, tir)}})

\* FinancialCalculator.calculate_tea_from_tir(tir, days_to_maturity)
TeaFromTir(tir, days) ==
    IF NumLe(tir, MinusOne) \/ days <= 0 THEN Zero
    ELSE Only({FSub(FPow(base, DayCount \div days), One) :
                  base \in {FAdd(One, tir)}})

\* (1 + tea) ** (1 / n) - 1
PeriodicRate(tea, n) ==
    Only({FSub(root, One) : root \in {FRoot(base, n) : base \in {FAdd(One, tea)}}})

\* FinancialCalculator.calculate_tem_from_tea(tea)
TemFromTea(tea) ==
    IF NumLe(tea, MinusOne) THEN Zero ELSE PeriodicRate(tea, 12)

\* FinancialCalculator.calculate_tna_from_tem(tem)
TnaFromTem(tem) == FMul(tem, Dec(12, 0))

\* Variant: tea = -1 is not treated as out of the domain.
TnaFromTeaStrictGuard(tea, frequency) ==
    IF (IsNum(tea) /\ FLt(tea, MinusOne)) \/ frequency <= 0 THEN Zero
    ELSE Only({FMul(rate, Dec(frequency, 0)) : rate \in {PeriodicRate(tea, frequency)}})

\* FinancialCalculator.calculate_tna_from_tea(tea, compounding_frequency)
TnaFromTea(tea, frequency) ==
    IF NumLe(tea, MinusOne) \/ frequency <= 0 THEN Zero
    ELSE Only({FMul(rate, Dec(frequency, 0)) : rate \in {PeriodicRate(tea, frequency)}})

\* convert_tirea_to_tem(tirea_anual); the comparison raises on NaN
ConvertTireaToTem(tirea_anual) ==
    IF IsNaN(tirea_anual) THEN Raised
    ELSE IF FLe(tirea_anual, MinusOne) THEN MinusOne
    ELSE PeriodicRate(tirea_anual, 12)

\* utils.helpers.calculate_tem_from_tea(tea); base < 0 raises on NaN
HelpersTemFromTea(tea) ==
    IF IsNaN(tea) THEN Raised
    ELSE IF FLt(FAdd(One, tea), Zero) THEN None
    ELSE PeriodicRate(tea, 12)

----------------------------------------------------------------------------
(* calculate_tir: the state machine *)

\* cashflows, price, settlement_date: the arguments of the running call.
\* pc: "idle" before the call, "start" at line 17, "loop" at the head of
\* the for loop, "test" after lines 76-77 have set npv_val and d_npv_val,
\* "done" after a return.
\* iter: passes of the for loop begun so far.  result: the returned value.
\* exit: which return statement was taken.
\* calls, prev_price, prev_result: how many calls the caller has made on
\* this schedule, and the price and result of the call before this one.
\* rate_call: the last call of a rate-bundle function and its arguments.
\* bundle: the dictionary it returned.  rates_pc: "idle" before any such
\* call, "returned" after a return with a dictionary, "no_result" after a
\* facade returned None or skipped the bond, "raised" after an exception
\* left the function.  rates_exit: which return statement was taken.
\* pure_call: the last call of a converter and its arguments.
\* pure_result: what it returned, Raised if it raised.
VARIABLES cashflows, price, settlement_date, pc, future_cashflows, guess,
          npv_val, d_npv_val, iter, result, exit, calls, prev_price,
          prev_result, rate_call, bundle, rates_pc, rates_exit, pure_call,
          pure_result, instance, ppi_client, token_expires_at, now,
          login_done, initialize_runs, instances_created, has_reference,
          connector_return, ppi_service, cached_prices, price_return,
          fetcher, cashflow_cache, csv_appends, fetcher_calls,
          cashflows_return, boncer_pc, boncer_call, boncer_tir,
          boncer_iteration, boncer_in_domain, boncer_result

inputs == <<cashflows, price, settlement_date>>

caller == <<calls, prev_price, prev_result>>

locals == <<future_cashflows, guess, npv_val, d_npv_val>>

rates == <<rate_call, bundle, rates_pc, rates_exit>>

pure == <<pure_call, pure_result>>

solver == <<inputs, locals, pc, iter, result, exit, caller>>

\* PPIAPIConnector: the class attributes, the clock, and what the calls did
connector == <<instance, ppi_client, token_expires_at, now, login_done,
               initialize_runs, instances_created, has_reference,
               connector_return>>

\* PPIService: whether it was constructed, its cache, the last get_price
ppi == <<ppi_service, cached_prices, price_return>>

\* PuenteNetFetcher: whether it was constructed, _cashflow_cache, the number
\* of times each ticker was appended to the CSV, the calls made, and what the
\* last get_cashflows did
puentenet == <<fetcher, cashflow_cache, csv_appends, fetcher_calls,
               cashflows_return>>

\* BONCERCalculator._calculate_irr_newton_raphson: where the call is, its
\* arguments, tir and iteration of the loop, whether 1 + tir was positive
\* in every pass so far, and what was returned and by which statement
boncer == <<boncer_pc, boncer_call, boncer_tir, boncer_iteration,
            boncer_in_domain, boncer_result>>

\* the state of the gateways, the services and the BONCER solver
ext == <<connector, ppi, puentenet, boncer>>

besides_connector == <<solver, rates, pure, ppi, puentenet, boncer>>

besides_ppi == <<solver, rates, pure, connector, puentenet, boncer>>

besides_puentenet == <<solver, rates, pure, connector, ppi, boncer>>

besides_boncer == <<solver, rates, pure, connector, ppi, puentenet>>

vars == <<cashflows, price, settlement_date, pc, future_cashflows, guess,
          npv_val, d_npv_val, iter, result, exit, calls, prev_price,
          prev_result, rate_call, bundle, rates_pc, rates_exit, pure_call,
          pure_result, instance, ppi_client, token_expires_at, now,
          login_done, initialize_runs, instances_created, has_reference,
          connector_return, ppi_service, cached_prices, price_return,
          fetcher, cashflow_cache, csv_appends, fetcher_calls,
          cashflows_return, boncer_pc, boncer_call, boncer_tir,
          boncer_iteration, boncer_in_domain, boncer_result>>

ExitKinds == {"bad_input", "no_future", "nan", "converged",
              "zero_derivative", "not_converged"}

TypeOK ==
    /\ cashflows \in CashFlowSchedules
    /\ price \in PriceSet
    /\ settlement_date \in SettlementSet
    /\ pc \in {"idle", "start", "loop", "test", "done"}
    /\ iter \in 0..MaxIter
    /\ exit \in ExitKinds \cup {""}
    /\ result.k \in {"num", "none"}

\* No call has been made yet.
Init ==
    /\ cashflows = <<>>
    /\ price = Zero
    /\ settlement_date = 0
    /\ pc = "idle"
    /\ future_cashflows = <<>>
    /\ guess = Seed
    /\ npv_val = Zero
    /\ d_npv_val = Zero
    /\ iter = 0
    /\ result = None
    /\ exit = ""
    /\ calls = 0
    /\ prev_price = None
    /\ prev_result = None
    /\ rate_call = [fn |-> "none"]
    /\ bundle = NoBundle
    /\ rates_pc = "idle"
    /\ rates_exit = ""
    /\ pure_call = [fn |-> "none"]
    /\ pure_result = None
    /\ instance = 0
    /\ ppi_client = "None"
    /\ token_expires_at = -1
    /\ now = 0
    /\ login_done = FALSE
    /\ initialize_runs = 0
    /\ instances_created = 0
    /\ has_reference = FALSE
    /\ connector_return = [op |-> "none"]
    /\ ppi_service = "None"
    /\ cached_prices = [key \in {"cedears", "bonds", "stocks"} |->
                           [ticker \in {"AL30", "GD30"} |-> 0]]
    /\ price_return = [op |-> "none"]
    /\ fetcher = "None"
    /\ cashflow_cache = [t \in {} |-> <<>>]
    /\ csv_appends = [t \in {"AL30", "GD30"} |-> 0]
    /\ fetcher_calls = 0
    /\ cashflows_return = [op |-> "none"]
    /\ boncer_pc = "idle"
    /\ boncer_call = [fn |-> "none"]
    /\ boncer_tir = None
    /\ boncer_iteration = 0
    /\ boncer_in_domain = TRUE
    /\ boncer_result = [returned |-> None, by |-> "none"]

\* calculate_tir(cfs, px, settle) is called
Call ==
    /\ pc = "idle"
    /\ \E cfs \in CashFlowSchedules, px \in PriceSet, settle \in SettlementSet :
          /\ cashflows' = cfs
          /\ price' = px
          /\ settlement_date' = settle
    /\ pc' = "start"
    /\ calls' = 1
    /\ UNCHANGED <<locals, iter, result, exit, prev_price, prev_result, rates, pure, ext>>

\* Variant: the price is not checked.
BadInputIgnoresPrice == cashflows = <<>>

\* not cashflows or price <= 0
BadInput == cashflows = <<>> \/ FLe(price, Zero)

\* the ways calculate_tir gives up: the return statements of lines 19, 35,
\* 85, 97 and 105
FailureKinds ==
    {"bad_input", "no_future", "nan", "zero_derivative", "not_converged"}

\* what the caller receives from each of them
ReturnedOn(kind) ==
    CASE kind = "bad_input" -> None
      [] kind = "no_future" -> None
      [] kind = "nan" -> None
      [] kind = "zero_derivative" -> None
      [] kind = "not_converged" -> None

\* return value
Return(value, why) ==
    /\ pc' = "done"
    /\ result' = value
    /\ exit' = why

\* lines 17-19
RejectInput ==
    /\ pc = "start"
    /\ BadInput
    /\ Return(None, "bad_input")
    /\ UNCHANGED <<inputs, locals, iter, caller, rates, pure, ext>>

\* lines 21-35, no flow after settlement
NoFutureCashflows ==
    /\ pc = "start"
    /\ ~BadInput
    /\ FutureCashflows(cashflows, settlement_date) = <<>>
    /\ Return(None, "no_future")
    /\ UNCHANGED <<inputs, locals, iter, caller, rates, pure, ext>>

\* lines 21-74, some flow after settlement: enter the Newton loop
EnterLoop ==
    /\ pc = "start"
    /\ ~BadInput
    /\ FutureCashflows(cashflows, settlement_date) # <<>>
    /\ future_cashflows' = FutureCashflows(cashflows, settlement_date)
    /\ guess' = Seed
    /\ pc' = "loop"
    /\ UNCHANGED <<inputs, npv_val, d_npv_val, iter, result, exit, caller, rates, pure, ext>>

\* Variant: the loop makes one pass too many.
InLoopOffByOne == pc = "loop" /\ iter <= MaxIter

\* for i in range(100): another pass is due
InLoop == pc = "loop" /\ iter < MaxIter

\* lines 75-77: begin a pass, npv_val = npv(guess), d_npv_val = d_npv(guess)
Evaluate ==
    /\ InLoop
    /\ npv_val' = Npv(future_cashflows, settlement_date, price, guess)
    /\ d_npv_val' = DNpv(future_cashflows, settlement_date, guess)
    /\ iter' = iter + 1
    /\ pc' = "test"
    /\ UNCHANGED <<inputs, future_cashflows, guess, result, exit, caller, rates, pure, ext>>

\* npv_val.is_nan() or d_npv_val.is_nan()
NanDetected == IsNaN(npv_val) \/ IsNaN(d_npv_val)

\* abs(npv_val) < Decimal("1e-9")
WithinTolerance(v) == FLt(FAbs(v), Tol)

\* lines 83-85
NanAbort ==
    /\ pc = "test"
    /\ NanDetected
    /\ Return(None, "nan")
    /\ UNCHANGED <<inputs, locals, iter, caller, rates, pure, ext>>

\* lines 87-93
Converged ==
    /\ pc = "test"
    /\ ~NanDetected
    /\ WithinTolerance(npv_val)
    /\ Return(guess, "converged")
    /\ UNCHANGED <<inputs, locals, iter, caller, rates, pure, ext>>

\* Variant: the derivative is tested before the tolerance.
ZeroDerivativeFirst ==
    /\ pc = "test"
    /\ ~NanDetected
    /\ FEq(d_npv_val, Zero)
    /\ Return(None, "zero_derivative")
    /\ UNCHANGED <<inputs, locals, iter, caller, rates, pure, ext>>

\* lines 95-97
ZeroDerivative ==
    /\ pc = "test"
    /\ ~NanDetected
    /\ ~WithinTolerance(npv_val)
    /\ FEq(d_npv_val, Zero)
    /\ Return(None, "zero_derivative")
    /\ UNCHANGED <<inputs, locals, iter, caller, rates, pure, ext>>

\* lines 99-100
NewtonStep ==
    /\ pc = "test"
    /\ ~NanDetected
    /\ ~WithinTolerance(npv_val)
    /\ ~FEq(d_npv_val, Zero)
    /\ guess' = NewGuess(guess, npv_val, d_npv_val)
    /\ pc' = "loop"
    /\ UNCHANGED <<inputs, future_cashflows, npv_val, d_npv_val, iter, result,
                   exit, caller, rates, pure, ext>>

\* Variant: the last iterate is returned when the loop runs out.
NotConvergedReturnsGuess ==
    /\ pc = "loop"
    /\ iter = MaxIter
    /\ Return(guess, "not_converged")
    /\ UNCHANGED <<inputs, locals, iter, caller, rates, pure, ext>>

\* lines 102-105: the for loop ran out
NotConverged ==
    /\ pc = "loop"
    /\ iter = MaxIter
    /\ Return(None, "not_converged")
    /\ UNCHANGED <<inputs, locals, iter, caller, rates, pure, ext>>

\* One call of calculate_tir.
Next ==
    \/ Call
    \/ RejectInput
    \/ NoFutureCashflows
    \/ EnterLoop
    \/ Evaluate
    \/ NanAbort
    \/ Converged
    \/ ZeroDerivative
    \/ NewtonStep
    \/ NotConverged

Spec == Init /\ [][Next]_vars

\* The caller solves the same schedule again at a higher price.
Reprice ==
    /\ pc = "done"
    /\ calls < MaxCalls
    /\ \E px \in PriceSet :
          /\ FLt(price, px)
          /\ price' = px
    /\ prev_price' = price
    /\ prev_result' = result
    /\ calls' = calls + 1
    /\ pc' = "start"
    /\ future_cashflows' = <<>>
    /\ guess' = Seed
    /\ npv_val' = Zero
    /\ d_npv_val' = Zero
    /\ iter' = 0
    /\ result' = None
    /\ exit' = ""
    /\ UNCHANGED <<cashflows, settlement_date, rates, pure, ext>>

\* Calls of calculate_tir on one schedule at rising prices.
NextReprice ==
    \/ Call
    \/ RejectInput
    \/ NoFutureCashflows
    \/ EnterLoop
    \/ Evaluate
    \/ NanAbort
    \/ Converged
    \/ ZeroDerivative
    \/ NewtonStep
    \/ NotConverged
    \/ Reprice

SpecReprice == Init /\ [][NextReprice]_vars

----------------------------------------------------------------------------
(* Rate bundles: the calls *)

\* calculate_irr_from_price_and_payoff(px, payoff, days, method)
CalculateIrrFromPriceAndPayoff ==
    /\ rates_pc = "idle"
    /\ \E px \in RatePriceSet, payoff \in PayoffSet, days \in DaysSet,
          method \in MethodSet :
          /\ rate_call' = [fn |-> "calculate_irr_from_price_and_payoff",
                           current_price |-> px, final_payoff |-> payoff,
                           days_to_maturity |-> days, method |-> method]
          /\ \E out \in {IrrOutcome(px, payoff, days, method)} :
                /\ bundle' = out.bundle
                /\ rates_exit' = out.exit
    /\ rates_pc' = "returned"
    /\ UNCHANGED <<solver, pure, ext>>

\* _calculate_rates_from_api_tir(api) with None or a number
CalculateRatesFromApiTir ==
    /\ rates_pc = "idle"
    /\ \E api \in ApiTirSet :
          /\ ~IsNaN(api)
          /\ rate_call' = [fn |-> "_calculate_rates_from_api_tir",
                           api_tir_as_tea |-> api]
          /\ \E out \in {ApiOutcome(api)} :
                /\ bundle' = out.bundle
                /\ rates_exit' = out.exit
    /\ rates_pc' = "returned"
    /\ UNCHANGED <<solver, pure, ext>>

\* _calculate_rates_from_api_tir(NaN): the comparison of line 72 raises
\* InvalidOperation, which nothing in the function catches
ApiTirComparisonRaises ==
    /\ rates_pc = "idle"
    /\ \E api \in ApiTirSet :
          /\ IsNaN(api)
          /\ rate_call' = [fn |-> "_calculate_rates_from_api_tir",
                           api_tir_as_tea |-> api]
    /\ bundle' = NoBundle
    /\ rates_exit' = "raised"
    /\ rates_pc' = "raised"
    /\ UNCHANGED <<solver, pure, ext>>

----------------------------------------------------------------------------
(* Facades: IRRCalculator.calculate_irr_for_bond of                        *)
(* src/domain/financial_math.py, BondAnalyzer.analyze_bond of              *)
(* src/application/bond_analyzer.py and the analysis loop of src/main.py   *)

\* days_to_maturity as the loader or the facade computes it from the
\* maturity date: (maturity_date - today).days
FacadeDaysSet == {-DayCount, 0, 73, DayCount}

\* bond_loader.get_bond_info(ticker): None for a ticker without a row (a
\* row whose date does not parse is never loaded), else the row
BondInfoSet ==
    {[found |-> FALSE, days_to_maturity |-> 0, final_payoff |-> None]} \cup
    [found : {TRUE}, days_to_maturity : FacadeDaysSet, final_payoff : {One, Dec(2, 0)}]

\* estimation_data of analyze_bond: nothing, or the "tir" and the parsed
\* "expirationDate" (dated: whether _parse_date gave a date; days: that
\* date minus today)
EstimationSet ==
    {[present |-> FALSE, tir |-> None, dated |-> FALSE, days |-> 0]} \cup
    [present : {TRUE}, tir : ApiTirSet, dated : {FALSE}, days : {0}] \cup
    [present : {TRUE}, tir : ApiTirSet, dated : {TRUE}, days : FacadeDaysSet]

\* bond_data['tir'] and price as the services of the loop deliver them
MainTirSet == {None, Zero, Dec(1, -1), One}

MainPriceSet == {None, Zero, One}

\* not x, for x None or a Decimal
Falsy(x) == x = None \/ (IsNum(x) /\ x.m = 0)

\* not bond_data or not bond_data.get('tir') or not price
MainMissingData(tir, px) == Falsy(tir) \/ Falsy(px)

\* the 'rates' dictionary of lines 211-227 of src/main.py
MainRates(tir) ==
    Only({[TIR |-> tir, TEA |-> tir, TEM |-> tem, TNA |-> NominalRate(tem)] :
             tem \in {MonthlyRate(tir)}})

\* a facade returned None, or the loop went on to the next ticker
NoResult(why) ==
    /\ bundle' = NoBundle
    /\ rates_exit' = why
    /\ rates_pc' = "no_result"

\* IRRCalculator.calculate_irr_for_bond(ticker, px)
CalculateIrrForBond ==
    /\ rates_pc = "idle"
    /\ \E info \in BondInfoSet, px \in RatePriceSet :
          /\ rate_call' = [fn |-> "calculate_irr_for_bond", bond_info |-> info,
                           current_price |-> px]
          /\ IF ~info.found THEN NoResult("no_bond_info")
             ELSE IF info.days_to_maturity <= 0 THEN NoResult("matured")
             ELSE \E out \in {IrrOutcome(px, info.final_payoff,
                                         info.days_to_maturity, "compound")} :
                     /\ bundle' = out.bundle
                     /\ rates_exit' = out.exit
                     /\ rates_pc' = "returned"
    /\ UNCHANGED <<solver, pure, ext>>

\* BondAnalyzer.analyze_bond(...) with the estimation the service gave,
\* for a "tir" that is absent or a number
AnalyzeBond ==
    /\ rates_pc = "idle"
    /\ \E est \in EstimationSet :
          /\ ~IsNaN(est.tir) \/ ~est.present \/ ~est.dated
          /\ rate_call' = [fn |-> "analyze_bond", estimation_data |-> est]
          /\ IF ~est.present THEN NoResult("no_estimation")
             ELSE IF ~est.dated THEN NoResult("no_maturity_date")
             ELSE \E out \in {ApiOutcome(est.tir)} :
                     /\ bundle' = out.bundle
                     /\ rates_exit' = out.exit
                     /\ rates_pc' = "returned"
    /\ UNCHANGED <<solver, pure, ext>>

\* BondAnalyzer.analyze_bond(...) with "tir" NaN: the comparison in
\* _calculate_rates_from_api_tir raises and analyze_bond does not catch it
AnalyzeBondRaises ==
    /\ rates_pc = "idle"
    /\ \E est \in EstimationSet :
          /\ IsNaN(est.tir) /\ est.present /\ est.dated
          /\ rate_call' = [fn |-> "analyze_bond", estimation_data |-> est]
    /\ bundle' = NoBundle
    /\ rates_exit' = "raised"
    /\ rates_pc' = "raised"
    /\ UNCHANGED <<solver, pure, ext>>

\* one pass of the loop of run_bond_analysis_and_plotting, from the final
\* validation of line 198 on
MainLoopPass ==
    /\ rates_pc = "idle"
    /\ \E tir \in MainTirSet, px \in MainPriceSet, days \in FacadeDaysSet :
          /\ rate_call' = [fn |-> "run_bond_analysis_and_plotting", tir |-> tir,
                           price |-> px, days_to_maturity |-> days]
          /\ IF MainMissingData(tir, px) THEN NoResult("missing_data")
             ELSE IF days <= 0 THEN NoResult("matured")
             ELSE /\ bundle' = MainRates(tir)
                  /\ rates_exit' = "ok"
                  /\ rates_pc' = "returned"
    /\ UNCHANGED <<solver, pure, ext>>

NextRates ==
    \/ CalculateIrrFromPriceAndPayoff
    \/ CalculateRatesFromApiTir
    \/ ApiTirComparisonRaises
    \/ CalculateIrrForBond
    \/ AnalyzeBond
    \/ AnalyzeBondRaises
    \/ MainLoopPass

SpecRates == Init /\ [][NextRates]_vars

----------------------------------------------------------------------------
(* Rate converters: the calls *)

\* fn(args) is called and returns value
PureCall(call, value) ==
    /\ pure_call = [fn |-> "none"]
    /\ pure_call' = call
    /\ pure_result' = value
    /\ UNCHANGED <<solver, rates, ext>>

CalculateTeaFromTir ==
    \E tir \in RateArgSet, days \in ConverterDaysSet :
        PureCall([fn |-> "calculate_tea_from_tir", tir |-> tir,
                  days_to_maturity |-> days],
                 TeaFromTir(tir, days))

CalculateTemFromTea ==
    \E tea \in RateArgSet :
        PureCall([fn |-> "calculate_tem_from_tea", tea |-> tea], TemFromTea(tea))

CalculateTnaFromTem ==
    \E tem \in RateArgSet :
        PureCall([fn |-> "calculate_tna_from_tem", tem |-> tem], TnaFromTem(tem))

CalculateTnaFromTea ==
    \E tea \in RateArgSet, frequency \in FrequencySet :
        PureCall([fn |-> "calculate_tna_from_tea", tea |-> tea,
                  compounding_frequency |-> frequency],
                 TnaFromTea(tea, frequency))

CallConvertTireaToTem ==
    \E tea \in RateArgSet :
        PureCall([fn |-> "convert_tirea_to_tem", tea |-> tea],
                 ConvertTireaToTem(tea))

CallHelpersTemFromTea ==
    \E tea \in RateArgSet :
        PureCall([fn |-> "helpers.calculate_tem_from_tea", tea |-> tea],
                 HelpersTemFromTea(tea))

NextConvert ==
    \/ CalculateTeaFromTir
    \/ CalculateTemFromTea
    \/ CalculateTnaFromTem
    \/ CalculateTnaFromTea
    \/ CallConvertTireaToTem
    \/ CallHelpersTemFromTea

SpecConvert == Init /\ [][NextConvert]_vars

----------------------------------------------------------------------------
(* calculate_macaulay_duration *)

\* Dates as day numbers; 73 days are a fifth of a year.
DurationDateSet == {73, DayCount, 2 * DayCount}

DurationAmountSet == {Dec(-1, 0), Zero, Dec(2, 0)}

DurationTirSet == {None, NaN, Dec(-3, 0), Dec(-2, 0), MinusOne, Zero,
                   Dec(1, -1), One}

DurationEntry == [date : DurationDateSet, amount : DurationAmountSet]

DurationSchedules == SeqsUpTo(DurationEntry, MaxFlows)

\* time_to_cashflow_years = Decimal(days) / Decimal("365.0")
TimeToCashflowYears(cf, settle) ==
    FDiv(Dec(cf.date - settle, 0), Dec(DayCount, 0))

\* (Decimal("1.0") + tir) ** time_to_cashflow_years for days > 0 that are
\* a whole number of years or a whole fraction of one year; a negative
\* base with a fractional exponent raises InvalidOperation.
DiscountFactor(tir, days) ==
    LET base == FAdd(One, tir)
    IN  IF days % DayCount = 0 THEN FPow(base, days \div DayCount)
        ELSE IF ~IsNum(base) THEN NaN
        ELSE IF base.m < 0 THEN Raised
        ELSE FRoot(base, DayCount \div days)

\* pv_cashflow = cf_amount / discount_factor; a zero discount factor
\* raises DivisionByZero, or InvalidOperation for 0 / 0.
PvCashflow(cf, tir, settle) ==
    Only({IF discount = Raised \/ (IsNum(discount) /\ discount.m = 0)
          THEN Raised
          ELSE FDiv(cf.amount, discount) :
             discount \in {DiscountFactor(tir, cf.date - settle)}})

\* present_value_sum and weighted_time_sum after the loop over cfs[1..n],
\* or raised when a flow made the loop return in its except branch
RECURSIVE DurationSums(_, _, _, _)
DurationSums(cfs, n, tir, settle) ==
    IF n = 0 THEN [raised |-> FALSE, pv |-> Zero, wt |-> Zero]
    ELSE Only({
        IF \/ prev.raised
           \/ ~(cfs[n].date > settle)
           \/ FLe(TimeToCashflowYears(cfs[n], settle), Zero)
        THEN prev
        ELSE Only({
            IF pv_cashflow = Raised THEN [prev EXCEPT !.raised = TRUE]
            ELSE [raised |-> FALSE,
                  pv |-> FAdd(prev.pv, pv_cashflow),
                  wt |-> FAdd(prev.wt,
                              FMul(pv_cashflow,
                                   TimeToCashflowYears(cfs[n], settle)))] :
              pv_cashflow \in {PvCashflow(cfs[n], tir, settle)}}) :
          prev \in {DurationSums(cfs, n - 1, tir, settle)}})

\* Variant: the test of present_value_sum against 0 is left out, and the
\* division of 0 by 0 raises.
MacaulayDurationNoZeroTest(cfs, tir, settle) ==
    IF Len(cfs) = 0 \/ tir = None THEN None
    ELSE Only({IF sums.raised THEN None
               ELSE IF IsNum(sums.pv) /\ sums.pv.m = 0 THEN Raised
               ELSE FDiv(sums.wt, sums.pv) :
                  sums \in {DurationSums(cfs, Len(cfs), tir, settle)}})

\* calculate_macaulay_duration(cashflows, tir, settlement_date)
MacaulayDuration(cfs, tir, settle) ==
    IF Len(cfs) = 0 \/ tir = None THEN None
    ELSE Only({IF sums.raised THEN None
               ELSE IF IsNum(sums.pv) /\ sums.pv.m = 0 THEN None
               ELSE FDiv(sums.wt, sums.pv) :
                  sums \in {DurationSums(cfs, Len(cfs), tir, settle)}})

CalculateMacaulayDuration ==
    \E cfs \in DurationSchedules, tir \in DurationTirSet,
       settle \in SettlementSet :
        PureCall([fn |-> "calculate_macaulay_duration", cashflows |-> cfs,
                  tir |-> tir, settlement_date |-> settle],
                 MacaulayDuration(cfs, tir, settle))

NextDuration == CalculateMacaulayDuration

SpecDuration == Init /\ [][NextDuration]_vars

----------------------------------------------------------------------------
(* CER projection: CERCalculator, BONCERCalculator, CERService *)

\* Decimal("1350.0"), the CER index written into both calculators
HardcodedCer == 1350

\* Decimal("30"), the days of one month in CERCalculator
DaysPerMonth == 30

\* Decimal("0.04")
MonthlyInflationEstimate == Dec(4, -2)

\* A date is a calendar month (years * 12 + month) and a day in it.
CerDateSet == [month : 0..2, day : {1, 15}]

\* a <= b on dates
DateLe(a, b) == a.month < b.month \/ (a.month = b.month /\ a.day <= b.day)

\* (b.year - a.year) * 12 + (b.month - a.month)
MonthsDiff(a, b) == b.month - a.month

\* An index value handed to a constructor, or None.
CerArgSet == {None, Zero, Dec(140, 1)}

\* What CERService.get_latest_cer() returns: None when BCRA cannot be
\* reached, else the published value.
LatestCerSet == {None, Zero, Dec(140, 1)}

InflationSet == {Dec(-2, 0), MinusOne, Zero, Dec(4, -2), Dec(5, -1)}

CerDaysSet == {-DaysPerMonth, 0, 15, DaysPerMonth, 2 * DaysPerMonth}

\* "not x" for x a Decimal or None
NoCer(x) == x = None \/ (IsNum(x) /\ x.m = 0)

\* Decimal("Infinity") and Decimal("-Infinity")
Infinite(sign) == [k |-> "inf", m |-> sign, e |-> 0]

IsInf(x) == x.k = "inf"

\* x ** Decimal(str(n)) for a whole n of either sign: 0 ** 0 raises
\* InvalidOperation and 0 ** n for n < 0 is Infinity.
PowWhole(x, n) ==
    IF ~IsNum(x) THEN NaN
    ELSE IF x.m = 0 /\ n = 0 THEN Raised
    ELSE IF x.m = 0 /\ n < 0 THEN Infinite(1)
    ELSE IF n >= 0 THEN FPow(x, n)
    ELSE Only({FDiv(One, p) : p \in {FPow(x, -n)}})

\* x * y where either may have raised or be infinite: 0 * Infinity raises
\* InvalidOperation
MulOrRaise(x, y) ==
    IF x = Raised \/ y = Raised THEN Raised
    ELSE IF IsInf(x) \/ IsInf(y)
    THEN IF SignOf(x) = 0 \/ SignOf(y) = 0 THEN Raised
         ELSE Infinite(SignOf(x) * SignOf(y))
    ELSE FMul(x, y)

\* x / y for a number y where x may have raised or be infinite: a finite
\* x over zero raises DivisionByZero or InvalidOperation
DivOrRaise(x, y) ==
    IF x = Raised THEN Raised
    ELSE IF IsInf(x)
    THEN Infinite(IF SignOf(y) < 0 THEN -SignOf(x) ELSE SignOf(x))
    ELSE IF y.m = 0 THEN Raised
    ELSE FDiv(x, y)

\* CERCalculator.__init__: self.current_cer_index
CerCalculatorInit == Dec(HardcodedCer, 0)

\* BONCERCalculator.__init__(current_cer): self.current_cer
BoncerCalculatorInit(current_cer) ==
    IF NoCer(current_cer) THEN Dec(HardcodedCer, 0) ELSE current_cer

\* BONCERCalculator.estimate_future_cer(target_date, monthly_inflation)
EstimateFutureCer(current_cer, target_date, today, monthly_inflation) ==
    IF DateLe(target_date, today) THEN current_cer
    ELSE MulOrRaise(current_cer,
                    PowWhole(FAdd(One, monthly_inflation),
                             MonthsDiff(today, target_date)))

\* CERCalculator.estimate_cer_at_maturity(days_to_maturity), for days that
\* are whole months or a whole fraction of one month
CerCalculatorEstimate(current_cer_index, monthly_inflation_estimate, days) ==
    LET base == FAdd(One, monthly_inflation_estimate)
    IN  IF days % DaysPerMonth = 0
        THEN MulOrRaise(current_cer_index, PowWhole(base, days \div DaysPerMonth))
        ELSE FMul(current_cer_index, FRoot(base, DaysPerMonth \div days))

\* CERService.estimate_cer_at_maturity(maturity_date, monthly_inflation_rate)
\* with latest what get_latest_cer() returns and estimated what
\* _estimate_monthly_inflation() returns
CerServiceEstimate(latest, maturity_date, today, monthly_inflation_rate, estimated) ==
    IF NoCer(latest) THEN None
    ELSE IF DateLe(maturity_date, today) THEN latest
    ELSE LET rate == IF monthly_inflation_rate = None THEN estimated
                     ELSE monthly_inflation_rate
         IN  Only({IF cer = Raised THEN None ELSE cer :
                      cer \in {MulOrRaise(latest,
                                          PowWhole(FAdd(One, rate),
                                                   MonthsDiff(today, maturity_date)))}})

\* CERCalculator() is constructed while the data source holds latest
NewCerCalculator ==
    \E latest \in LatestCerSet :
        PureCall([fn |-> "CERCalculator.__init__", latest_cer |-> latest],
                 CerCalculatorInit)

\* BONCERCalculator(current_cer) is constructed while the data source holds
\* latest
NewBoncerCalculator ==
    \E current_cer \in CerArgSet, latest \in LatestCerSet :
        PureCall([fn |-> "BONCERCalculator.__init__", current_cer |-> current_cer,
                  latest_cer |-> latest],
                 BoncerCalculatorInit(current_cer))

BoncerEstimateFutureCer ==
    \E arg \in CerArgSet, target_date \in CerDateSet, today \in CerDateSet,
       monthly_inflation \in InflationSet :
        \E current_cer \in {BoncerCalculatorInit(arg)} :
            PureCall([fn |-> "BONCERCalculator.estimate_future_cer",
                      current_cer |-> current_cer, target_date |-> target_date,
                      today |-> today, monthly_inflation |-> monthly_inflation],
                     EstimateFutureCer(current_cer, target_date, today,
                                       monthly_inflation))

CerCalculatorEstimateCerAtMaturity ==
    \E days \in CerDaysSet :
        PureCall([fn |-> "CERCalculator.estimate_cer_at_maturity",
                  current_cer_index |-> CerCalculatorInit,
                  monthly_inflation_estimate |-> MonthlyInflationEstimate,
                  days_to_maturity |-> days],
                 CerCalculatorEstimate(CerCalculatorInit,
                                       MonthlyInflationEstimate, days))

CerServiceEstimateCerAtMaturity ==
    \E latest \in LatestCerSet, maturity_date \in CerDateSet,
       today \in CerDateSet, rate \in InflationSet \cup {None},
       estimated \in {Dec(3, -2), Dec(4, -2)} :
        PureCall([fn |-> "CERService.estimate_cer_at_maturity",
                  latest_cer |-> latest, maturity_date |-> maturity_date,
                  today |-> today, monthly_inflation_rate |-> rate,
                  estimated |-> IF rate = None THEN estimated ELSE None],
                 CerServiceEstimate(latest, maturity_date, today, rate,
                                    estimated))

NextCer ==
    \/ NewCerCalculator
    \/ NewBoncerCalculator
    \/ BoncerEstimateFutureCer
    \/ CerCalculatorEstimateCerAtMaturity
    \/ CerServiceEstimateCerAtMaturity

SpecCer == Init /\ [][NextCer]_vars

----------------------------------------------------------------------------
(* CERCalculator.reverse_calculate_market_expectations *)

ExpectationPriceSet == {Zero, One, Dec(2, 0)}

ExpectationTirSet == {Dec(-2, 0), MinusOne, Zero, Dec(1, -1)}

ExpectationDaysSet == {-DayCount, 0, 73, DayCount, 2 * DayCount}

NominalPayoffSet == {Zero, One, Dec(2, 0)}

RECURSIVE Gcd(_, _)
Gcd(a, b) == IF b = 0 THEN a ELSE Gcd(b, a % b)

\* base ** (Decimal("365") / Decimal(str(days))) for days # 0 that divide
\* 365 or are a multiple of it: a negative base raises InvalidOperation
\* under an exponent that is not whole
ExpectationAnnualPower(base, days) ==
    IF DayCount % AbsInt(days) = 0
    THEN PowWhole(base, IF days < 0 THEN -(DayCount \div AbsInt(days))
                        ELSE DayCount \div days)
    ELSE IF base.m < 0 THEN Raised
    ELSE FRoot(base, days \div DayCount)

\* x ** (Decimal("1") / months_to_maturity) for days > 0 that are no whole
\* fraction of a month, the exponent being 30 / days: a negative x raises
\* InvalidOperation
MonthlyRootPower(x, days) ==
    IF x.m < 0 THEN Raised
    ELSE IF x.m = 0 THEN Zero
    ELSE Only({FRoot(p, days \div Gcd(days, DaysPerMonth)) :
                  p \in {FPow(x, DaysPerMonth \div Gcd(days, DaysPerMonth))}})

RaisedExpectations == [status |-> "raised"]

\* lines 91-103 once inflation_adjustment is known
ExpectationsOf(implied_payoff, inflation_adjustment, days) ==
    IF days > 0
    THEN Only({IF power = Raised THEN RaisedExpectations
               ELSE Only({[status |-> "ok",
                           implied_payoff |-> implied_payoff,
                           inflation_adjustment |-> inflation_adjustment,
                           implied_monthly_inflation |-> monthly,
                           implied_annual_inflation |-> FMul(monthly, Dec(12, 0))] :
                              monthly \in {FSub(power, One)}}) :
                  power \in {MonthlyRootPower(inflation_adjustment, days)}})
    ELSE [status |-> "ok",
          implied_payoff |-> implied_payoff,
          inflation_adjustment |-> inflation_adjustment,
          implied_monthly_inflation |-> Zero,
          implied_annual_inflation |-> FMul(Zero, Dec(12, 0))]

\* reverse_calculate_market_expectations(current_price, market_tir,
\* days_to_maturity, nominal_payoff): the exponent of line 86 divides by
\* the days before anything tests them
ReverseCalculateExpectations(current_price, market_tir, days, nominal_payoff) ==
    IF days = 0 THEN RaisedExpectations
    ELSE Only({Only({IF inflation_adjustment = Raised THEN RaisedExpectations
                     ELSE ExpectationsOf(implied_payoff, inflation_adjustment,
                                         days) :
                        inflation_adjustment \in
                            {DivOrRaise(implied_payoff, nominal_payoff)}}) :
                  implied_payoff \in
                      {MulOrRaise(current_price,
                                  ExpectationAnnualPower(FAdd(One, market_tir),
                                                         days))}})

ReverseCalculateMarketExpectations ==
    \E current_price \in ExpectationPriceSet, market_tir \in ExpectationTirSet,
       days \in ExpectationDaysSet, nominal_payoff \in NominalPayoffSet :
        PureCall([fn |-> "reverse_calculate_market_expectations",
                  current_price |-> current_price, market_tir |-> market_tir,
                  days_to_maturity |-> days, nominal_payoff |-> nominal_payoff],
                 ReverseCalculateExpectations(current_price, market_tir, days,
                                              nominal_payoff))

\* the computations of one bond: the rates from price and payoff, and the
\* market expectations
NextExpectations ==
    \/ CalculateIrrFromPriceAndPayoff
    \/ ReverseCalculateMarketExpectations

SpecExpectations == Init /\ [][NextExpectations]_vars

----------------------------------------------------------------------------
(* BONCERCalculator._calculate_irr_newton_raphson *)

\* max_iterations
BoncerMaxIterations == 100

\* tolerance = Decimal("0.0001")
BoncerTolerance == Dec(1, -4)

\* tir = Decimal("0.05")
BoncerSeed == Dec(5, -2)

\* Decimal("-0.9") and Decimal("-0.5") of lines 220-221
ClampBelow == Dec(-9, -1)

ClampTo == Dec(-5, -1)

PresentValueSet == {Dec(1, -1), Dec(952, -3), One, Dec(952, 9)}

\* the coupon schedule: days_from_today in whole years, the flow in
\* adjusted pesos and its CER ratio
BoncerFlowSet ==
    [days_from_today : {0, DayCount, 2 * DayCount},
     flujo_total : {One, Dec(1, 12)}, cer_ratio : {One}]
    \cup {[days_from_today |-> DayCount, flujo_total |-> Dec(2, 0),
           cer_ratio |-> Dec(2, 0)]}

BoncerSchedules == SeqsUpTo(BoncerFlowSet, MaxFlows)

RECURSIVE BoncerSums(_, _, _, _)
\* npv and npv_derivative after the first n flows, lines 182-203
BoncerSums(present_value, cash_flows, n, tir) ==
    IF n = 0 THEN [npv |-> FNeg(present_value), npv_derivative |-> Zero]
    ELSE Only({
        IF cash_flows[n].days_from_today <= 0 THEN prev
        ELSE Only({Only({
                [npv |-> FAdd(prev.npv, FDiv(flujo_real, discount_factor)),
                 npv_derivative |->
                    FSub(prev.npv_derivative,
                         FDiv(FMul(flujo_real,
                                   Dec(cash_flows[n].days_from_today \div DayCount, 0)),
                              FMul(discount_factor, FAdd(One, tir))))] :
                discount_factor \in
                    {FPow(FAdd(One, tir),
                          cash_flows[n].days_from_today \div DayCount)}}) :
              flujo_real \in {FDiv(cash_flows[n].flujo_total,
                                   cash_flows[n].cer_ratio)}}) :
        prev \in {BoncerSums(present_value, cash_flows, n - 1, tir)}})

\* the npv of the deflated flows at a rate
BoncerNpv(present_value, cash_flows, tir) ==
    BoncerSums(present_value, cash_flows, Len(cash_flows), tir).npv

\* lines 219-221
Clamp(tir) == IF FLt(tir, ClampBelow) THEN ClampTo ELSE tir

\* abs(npv) < tolerance, line 205
BoncerConverged(sums, tir) == FLt(FAbs(sums.npv), BoncerTolerance)

\* _calculate_irr_newton_raphson(present_value, cash_flows, cer_emision)
\* is called: tir = Decimal("0.05"), line 180
CallNewtonRaphson ==
    /\ boncer_pc = "idle"
    /\ \E present_value \in PresentValueSet, cash_flows \in BoncerSchedules :
          boncer_call' = [fn |-> "_calculate_irr_newton_raphson",
                          present_value |-> present_value,
                          cash_flows |-> cash_flows]
    /\ boncer_pc' = "loop"
    /\ boncer_tir' = BoncerSeed
    /\ boncer_iteration' = 0
    /\ UNCHANGED <<boncer_in_domain, boncer_result, besides_boncer>>

\* return value, or the break of line 211 that leads to the return None
\* of line 227
NewtonRaphsonReturn(value, by) ==
    /\ boncer_pc' = "done"
    /\ boncer_result' = [returned |-> value, by |-> by]
    /\ UNCHANGED boncer_tir

\* one pass of the loop, lines 182-224
NewtonRaphsonPass ==
    /\ boncer_pc = "loop"
    /\ boncer_iteration < BoncerMaxIterations
    /\ boncer_iteration' = boncer_iteration + 1
    /\ boncer_in_domain' = (boncer_in_domain /\ FLt(MinusOne, boncer_tir))
    /\ \E sums \in {BoncerSums(boncer_call.present_value,
                                boncer_call.cash_flows,
                                Len(boncer_call.cash_flows), boncer_tir)} :
          IF BoncerConverged(sums, boncer_tir)
          THEN NewtonRaphsonReturn(boncer_tir, "npv")
          ELSE IF FLt(FAbs(sums.npv_derivative), BoncerTolerance)
          THEN NewtonRaphsonReturn(None, "small_derivative")
          ELSE \E tir_new \in {FSub(boncer_tir,
                                     FDiv(sums.npv, sums.npv_derivative))} :
                  IF FLt(FAbs(FSub(tir_new, boncer_tir)), BoncerTolerance)
                  THEN NewtonRaphsonReturn(tir_new, "small_step")
                  ELSE /\ boncer_tir' = Clamp(tir_new)
                       /\ UNCHANGED <<boncer_pc, boncer_result>>
    /\ UNCHANGED <<boncer_call, besides_boncer>>

\* the loop ends after max_iterations passes: return None, line 227
NewtonRaphsonExhausted ==
    /\ boncer_pc = "loop"
    /\ boncer_iteration = BoncerMaxIterations
    /\ NewtonRaphsonReturn(None, "not_converged")
    /\ UNCHANGED <<boncer_call, boncer_iteration, boncer_in_domain,
                   besides_boncer>>

NextBoncer ==
    \/ CallNewtonRaphson
    \/ NewtonRaphsonPass
    \/ NewtonRaphsonExhausted

SpecBoncer == Init /\ [][NextBoncer]_vars

----------------------------------------------------------------------------
(* Carry trade: CarryTradeService and the loop of src/main.py *)

\* Decimal("1200"), the MEP rate CarryTradeService falls back to
DefaultMep == 1200

\* Decimal("1400"), the start of the worst-case USD path
WorstCaseBase == 1400

\* usd_scenarios when the caller gives none
DefaultScenarios == <<1000, 1100, 1200, 1300, 1400>>

\* usd_scenarios of run_bond_analysis_and_plotting
MainScenarios == <<1200, 1300, 1400, 1500, 1600, 1700>>

\* usd_scenarios as a caller may give it: nothing, or a list of rates
ScenarioArgSet == {<<-1>>} \cup SeqsUpTo({0, 1, DefaultMep}, 2)

NoScenarios == <<-1>>

CarryPriceSet == {None, Zero, One, Dec(2, 0), Dec(3, 0)}

CarryPayoffSet == {One, Dec(2, 0)}

CarryDaysSet == {0, 73, DayCount}

\* what get_mep_rate() returns: None, or the median of the close prices
MepSet == {None, Zero, Dec(137, 1)}

\* x ** (Decimal(days) / Decimal("30")) for days > 0, computed as the 30th
\* root of x ** days
MonthsPower(x, days) ==
    IF days % DaysPerMonth = 0 THEN HPow(x, days \div DaysPerMonth)
    ELSE Only({HRoot(p, DaysPerMonth) : p \in {HPow(x, days)}})

\* worst_case_usd = Decimal("1400") * (Decimal("1.01") ** days_ratio)
WorstCaseUsd(days) == HMul(Dec(WorstCaseBase, 0), MonthsPower(Dec(101, -2), days))

\* bond_return_ratio * mep_rate / usd - Decimal("1"), lines 100 and 106 of
\* carry_trade_service.py
ServiceCarryReturn(ratio, mep, usd) == HSub(HDiv(HMul(ratio, mep), usd), One)

\* mep_breakeven = mep_rate * bond_return_ratio, line 109
ServiceBreakeven(ratio, mep) == HMul(mep, ratio)

\* (usd_received / usd_invested) - Decimal("1"), lines 250-252 of main.py
MainCarryReturn(px, payoff, mep, usd) ==
    HSub(HDiv(HDiv(payoff, usd), HDiv(px, mep)), One)

\* Variant: the breakeven is taken as final_payoff * price / mep_rate.
MainBreakevenInverted(px, payoff, mep) == HDiv(HMul(payoff, px), mep)

\* mep_breakeven = final_payoff * mep_rate / price, line 265 of main.py
MainBreakeven(px, payoff, mep) == HDiv(HMul(payoff, mep), px)

\* the carry return of both formulas at their own breakeven rate
BreakevenReturns(px, payoff, mep) ==
    Only({[main_breakeven |-> mb, service_breakeven |-> sb,
           main_return |-> MainCarryReturn(px, payoff, mep, mb),
           service_return |-> ServiceCarryReturn(ratio, mep, sb)] :
             mb \in {MainBreakeven(px, payoff, mep)},
             sb \in {ServiceBreakeven(ratio, mep) : ratio \in {HDiv(payoff, px)}},
             ratio \in {HDiv(payoff, px)}})

BreakevenPriceSet == {Dec(1, -7), Dec(999, -3), Dec(123, -2), Dec(3, 0), Dec(7, 0)}

BreakevenPayoffSet == {Dec(1, -7), One, Dec(7, 0), Dec(137, 0)}

BreakevenFxSet == {Dec(1, -3), Dec(7, 0), Dec(120, 1), Dec(137, 1)}

\* the divisors Decimal(str(usd_rate)) that the loop over the scenarios
\* reaches: all of them, or those up to the first 0, where the division
\* raises
ScenarioDivisors(scenarios) ==
    {Dec(scenarios[i], 0) : i \in {j \in DOMAIN scenarios :
                                     \A k \in 1..(j - 1) : scenarios[k] # 0}}

\* one ticker of the loop of calculate_carry_trade_returns, lines 80-120:
\* px is prices.get(ticker), fetched what get_mep_rate() returned
ServiceCarryForBond(px, fetched, days, payoff, arg) ==
    LET mep       == IF Falsy(fetched) THEN Dec(DefaultMep, 0) ELSE fetched
        scenarios == IF arg = NoScenarios THEN DefaultScenarios ELSE arg
    IN  IF Falsy(px) \/ days <= 0
        THEN [status |-> "skipped", tir |-> None, divisors |-> {}]
        ELSE Only({
            IF Falsy(tir) THEN [status |-> "skipped", tir |-> tir, divisors |-> {}]
            ELSE IF \E i \in DOMAIN scenarios : scenarios[i] = 0
            THEN [status |-> "raised", tir |-> tir,
                  divisors |-> {px} \cup ScenarioDivisors(scenarios)]
            ELSE Only({
                [status |-> "kept", tir |-> tir,
                 divisors |-> {px, worst} \cup ScenarioDivisors(scenarios),
                 carry_scenarios |->
                     [i \in DOMAIN scenarios |->
                         ServiceCarryReturn(ratio, mep, Dec(scenarios[i], 0))],
                 carry_worst |-> ServiceCarryReturn(ratio, mep, worst),
                 mep_breakeven |-> ServiceBreakeven(ratio, mep)] :
                   ratio \in {HDiv(payoff, px)}, worst \in {WorstCaseUsd(days)}}) :
              tir \in {IrrOutcome(px, payoff, days, "compound").bundle.TIR}})

\* one pass of the loop of run_bond_analysis_and_plotting from line 198 on,
\* the carry block of lines 237-277 included
MainCarryForBond(tir, px, days, payoff, mep) ==
    IF MainMissingData(tir, px)
    THEN [status |-> "missing", tir |-> tir, divisors |-> {}]
    ELSE IF days <= 0 THEN [status |-> "skipped", tir |-> tir, divisors |-> {}]
    ELSE IF Falsy(mep)
    THEN [status |-> "kept", tir |-> tir, carry |-> FALSE, divisors |-> {}]
    ELSE Only({
        [status |-> "kept", tir |-> tir, carry |-> TRUE,
         divisors |-> {px, mep, invested, worst} \cup ScenarioDivisors(MainScenarios),
         carry_scenarios |->
             [i \in DOMAIN MainScenarios |->
                 MainCarryReturn(px, payoff, mep, Dec(MainScenarios[i], 0))],
         carry_worst |-> MainCarryReturn(px, payoff, mep, worst),
         mep_breakeven |-> MainBreakeven(px, payoff, mep)] :
           invested \in {HDiv(px, mep)}, worst \in {WorstCaseUsd(days)}})

\* calculate_carry_trade_returns(usd_scenarios), for one ticker
CalculateCarryTradeReturns ==
    \E px \in CarryPriceSet, fetched \in MepSet, days \in CarryDaysSet,
       payoff \in CarryPayoffSet, arg \in ScenarioArgSet :
        \E out \in {ServiceCarryForBond(px, fetched, days, payoff, arg)} :
            PureCall([fn |-> "calculate_carry_trade_returns", price |-> px,
                      mep_rate |-> fetched, days_to_maturity |-> days,
                      final_payoff |-> payoff, usd_scenarios |-> arg],
                     out)

\* the loop of run_bond_analysis_and_plotting, for one ticker
MainCarryBlock ==
    \E tir \in MainTirSet, px \in CarryPriceSet, days \in CarryDaysSet,
       payoff \in CarryPayoffSet, mep \in MepSet \ {None} :
        \E out \in {MainCarryForBond(tir, px, days, payoff, mep)} :
            PureCall([fn |-> "run_bond_analysis_and_plotting", tir |-> tir,
                      price |-> px, days_to_maturity |-> days,
                      final_payoff |-> payoff, mep_rate |-> mep],
                     out)

\* both carry formulas are evaluated at the breakeven rate they compute
CarryReturnAtBreakeven ==
    \E px \in BreakevenPriceSet, payoff \in BreakevenPayoffSet,
       mep \in BreakevenFxSet :
        PureCall([fn |-> "carry_return_at_breakeven", price |-> px,
                  final_payoff |-> payoff, fx_rate_now |-> mep],
                 BreakevenReturns(px, payoff, mep))

NextCarry ==
    \/ CarryReturnAtBreakeven
    \/ CalculateCarryTradeReturns
    \/ MainCarryBlock

SpecCarry == Init /\ [][NextCarry]_vars

----------------------------------------------------------------------------
(* PPIAPIConnector *)

\* timedelta(minutes=60), the assumed length of a session
SessionMinutes == 60

\* timedelta(minutes=5), how long before the expiry a login is repeated
RefreshMargin == 5

\* the last minute of the clock
MaxClock == 70

\* _token_expires_at is None
NoExpiry == -1

\* Variant: the login is repeated only once the expiry has passed.
NearExpiryNoMargin(expires, t) == expires # NoExpiry /\ t >= expires

\* _token_expires_at and datetime.now() >= _token_expires_at - 5 minutes
NearExpiry(expires, t) == expires # NoExpiry /\ t >= expires - RefreshMargin

\* _authenticate(): login_api succeeds and the expiry is tracked, or it
\* raises and ConnectionError goes up
Authenticate(login_ok) ==
    IF login_ok
    THEN /\ token_expires_at' = now + SessionMinutes
         /\ login_done' = TRUE
    ELSE UNCHANGED <<token_expires_at, login_done>>

\* _initialize(): the keys are read, the client is made, the first login
\* is tried
Initialize(keys, login_ok) ==
    /\ initialize_runs' = initialize_runs + 1
    /\ IF ~keys
       THEN /\ UNCHANGED <<ppi_client, token_expires_at, login_done, has_reference>>
            /\ connector_return' = [op |-> "construct", outcome |-> "ValueError"]
       ELSE /\ ppi_client' = "PPI"
            /\ Authenticate(login_ok)
            /\ IF login_ok
               THEN /\ has_reference' = TRUE
                    /\ connector_return' = [op |-> "construct",
                                            outcome |-> "instance",
                                            instance |-> instance']
               ELSE /\ UNCHANGED has_reference
                    /\ connector_return' = [op |-> "construct",
                                            outcome |-> "ConnectionError"]

\* PPIAPIConnector(): __new__ with the environment having the keys or not
\* and the API accepting the login or not
Construct ==
    /\ \E keys \in BOOLEAN, login_ok \in BOOLEAN :
          IF instance = 0
          THEN /\ instances_created' = instances_created + 1
               /\ instance' = instances_created + 1
               /\ IF ppi_client = "None"
                  THEN Initialize(keys, login_ok)
                  ELSE /\ has_reference' = TRUE
                       /\ connector_return' = [op |-> "construct",
                                               outcome |-> "instance",
                                               instance |-> instance']
                       /\ UNCHANGED <<ppi_client, token_expires_at, login_done,
                                      initialize_runs>>
          ELSE /\ has_reference' = TRUE
               /\ connector_return' = [op |-> "construct", outcome |-> "instance",
                                       instance |-> instance]
               /\ UNCHANGED <<instance, instances_created, ppi_client,
                              token_expires_at, login_done, initialize_runs>>
    /\ UNCHANGED <<now, besides_connector>>

\* get_client() on an instance a construction returned
GetClient ==
    /\ has_reference
    /\ \E login_ok \in BOOLEAN :
          IF ppi_client = "None"
          THEN /\ connector_return' = [op |-> "get_client",
                                       outcome |-> "RuntimeError",
                                       reauthenticated |-> FALSE,
                                       expires_before |-> token_expires_at,
                                       at |-> now]
               /\ UNCHANGED <<token_expires_at, login_done>>
          ELSE IF NearExpiry(token_expires_at, now)
          THEN /\ Authenticate(login_ok)
               /\ connector_return' = [op |-> "get_client",
                                       outcome |-> IF login_ok THEN "client"
                                                   ELSE "ConnectionError",
                                       reauthenticated |-> TRUE,
                                       expires_before |-> token_expires_at,
                                       at |-> now]
          ELSE /\ connector_return' = [op |-> "get_client", outcome |-> "client",
                                       reauthenticated |-> FALSE,
                                       expires_before |-> token_expires_at,
                                       at |-> now]
               /\ UNCHANGED <<token_expires_at, login_done>>
    /\ UNCHANGED <<instance, ppi_client, now, initialize_runs, instances_created,
                   has_reference, besides_connector>>

\* time passes
Tick ==
    /\ \E minutes \in {1, RefreshMargin, 50} :
          /\ now + minutes <= MaxClock
          /\ now' = now + minutes
    /\ UNCHANGED <<instance, ppi_client, token_expires_at, login_done,
                   initialize_runs, instances_created, has_reference,
                   connector_return, besides_connector>>

NextConnector ==
    \/ Construct
    \/ GetClient
    \/ Tick

SpecConnector == Init /\ [][NextConnector]_vars

----------------------------------------------------------------------------
(* PPIService.get_price *)

TickerSet == {"AL30", "GD30"}

CacheKeys == {"cedears", "bonds", "stocks"}

\* the instrument types a caller names; "OTRO" stands for any other one
InstrumentTypeSet == {"BONOS", "LETRAS", "CEDEARS", "OTRO"}

\* cache_key of lines 80-85
CacheKey(instrument_type) ==
    CASE instrument_type = "CEDEARS" -> "cedears"
      [] instrument_type = "BONOS" -> "bonds"
      [] instrument_type = "ACCIONES" -> "stocks"
      [] instrument_type = "LETRAS" -> "bonds"
      [] OTHER -> "other"

\* A value of the answer of the API: null, a number, or something that
\* Decimal(str(...)) cannot read.
ApiFieldSet == {[k |-> "null", v |-> 0], [k |-> "bad", v |-> 0],
                [k |-> "num", v |-> 1], [k |-> "num", v |-> 2]}

\* what self.ppi.marketdata.current(...) does: it raises, gives nothing,
\* or gives data
ApiAnswerSet ==
    {[kind |-> "raises", price |-> [k |-> "null", v |-> 0],
      tir |-> [k |-> "null", v |-> 0]],
     [kind |-> "empty", price |-> [k |-> "null", v |-> 0],
      tir |-> [k |-> "null", v |-> 0]]} \cup
    [kind : {"data"}, price : ApiFieldSet, tir : ApiFieldSet]

\* the contents data/price_cache.json may have; 0 stands for no entry
CacheFileSet ==
    {[key \in CacheKeys |-> [ticker \in TickerSet |->
        IF key = "bonds" /\ ticker \in held THEN 3 ELSE 0]] :
            held \in SUBSET TickerSet}

\* cache_key in self.cached_prices and ticker in self.cached_prices[cache_key]
CacheHolds(cache, key, ticker) == key \in CacheKeys /\ cache[key][ticker] # 0

\* the except clause of lines 113-126
GetPriceOnException(cache, key, ticker) ==
    IF CacheHolds(cache, key, ticker)
    THEN [outcome |-> "dict", price |-> cache[key][ticker], tir |-> 0,
          from_cache |-> TRUE]
    ELSE [outcome |-> "raised", price |-> 0, tir |-> 0, from_cache |-> FALSE]

\* what get_price returns: the dictionary (0 for None) or the exception
GetPriceResult(cache, key, ticker, answer) ==
    IF answer.kind = "raises" THEN GetPriceOnException(cache, key, ticker)
    ELSE IF answer.kind = "data"
    THEN IF answer.price.k = "bad" \/ answer.tir.k = "bad"
         THEN GetPriceOnException(cache, key, ticker)
         ELSE [outcome |-> "dict", price |-> answer.price.v,
               tir |-> answer.tir.v, from_cache |-> FALSE]
    ELSE IF CacheHolds(cache, key, ticker)
    THEN [outcome |-> "dict", price |-> cache[key][ticker], tir |-> 0,
          from_cache |-> TRUE]
    ELSE [outcome |-> "dict", price |-> 0, tir |-> 0, from_cache |-> FALSE]

\* self.cached_prices after get_price, lines 97-98
GetPriceCache(cache, key, ticker, answer) ==
    IF /\ answer.kind = "data"
       /\ answer.price.k = "num"
       /\ answer.tir.k # "bad"
       /\ key \in CacheKeys
    THEN [cache EXCEPT ![key][ticker] = answer.price.v]
    ELSE cache

\* PPIService(): __init__ with _load_cache reading the file
NewPpiService ==
    /\ ppi_service = "None"
    /\ ppi_service' = "ready"
    /\ \E file \in CacheFileSet : cached_prices' = file
    /\ price_return' = [op |-> "init"]
    /\ UNCHANGED besides_ppi

\* get_price(ticker, instrument_type)
GetPrice ==
    /\ ppi_service = "ready"
    /\ \E ticker \in TickerSet, instrument_type \in InstrumentTypeSet,
          answer \in ApiAnswerSet :
          /\ cached_prices' = GetPriceCache(cached_prices,
                                            CacheKey(instrument_type), ticker,
                                            answer)
          /\ price_return' =
                [op |-> "get_price", ticker |-> ticker,
                 instrument_type |-> instrument_type, answer |-> answer,
                 cache_before |-> cached_prices,
                 result |-> GetPriceResult(cached_prices,
                                           CacheKey(instrument_type), ticker,
                                           answer)]
    /\ UNCHANGED <<ppi_service, besides_ppi>>

NextPpi ==
    \/ NewPpiService
    \/ GetPrice

SpecPpi == Init /\ [][NextPpi]_vars

(* PuenteNetFetcher.get_cashflows *)

MaxFetches == 3

\* one flow as the site sends it: fechaPago (0 for a missing one) and
\* importe, a number or something Decimal(str(...)) cannot read
RawFlowSet ==
    {[fechaPago |-> 0, importe |-> [k |-> "num", v |-> 1]],
     [fechaPago |-> 1, importe |-> [k |-> "num", v |-> 0]],
     [fechaPago |-> 1, importe |-> [k |-> "num", v |-> 1]],
     [fechaPago |-> 2, importe |-> [k |-> "num", v |-> 1]],
     [fechaPago |-> 1, importe |-> [k |-> "bad", v |-> 0]]}

RawFlowLists == SeqsUpTo(RawFlowSet, 2)

\* mapFlujosDTO as the pairs of the JSON object, in its order
CurrencyMaps ==
    {<<>>} \cup
    {<<[key |-> "USD", flows |-> l]>> : l \in RawFlowLists} \cup
    {<<[key |-> "EUR", flows |-> l]>> : l \in RawFlowLists} \cup
    {<<[key |-> "USD", flows |-> <<>>], [key |-> "ARS", flows |-> l]>> :
        l \in RawFlowLists}

\* what _fetch_from_puentenet returns: None after a request or JSON error,
\* or the decoded JSON: an empty object, something that is no object, an
\* object with errores, or an object with mapFlujosDTO
RawDataSet ==
    {[kind |-> k, map |-> <<>>] : k \in {"none", "empty", "notdict", "errores"}}
    \cup {[kind |-> "map", map |-> m] : m \in CurrencyMaps}

\* the rows of src/data/cashflows.csv a ticker may have
StoredFlows == <<[date |-> 1, total_payment |-> 1]>>

\* _load_cashflows_from_csv: one cache entry per ticker with rows
LoadCashflowsFromCsv(tickers_in_csv) == [t \in tickers_in_csv |-> StoredFlows]

\* cashflows_by_currency.get(currency_key): <<>> stands for None too, both
\* are falsy
CurrencyGet(map, currency_key) ==
    IF \E i \in 1..Len(map) : map[i].key = currency_key
    THEN map[CHOOSE i \in 1..Len(map) : map[i].key = currency_key].flows
    ELSE <<>>

\* target_cashflows of lines 160-177
TargetCashflows(map) ==
    LET by_priority ==
            IF CurrencyGet(map, "USD") # <<>> THEN CurrencyGet(map, "USD")
            ELSE IF CurrencyGet(map, "ARS") # <<>> THEN CurrencyGet(map, "ARS")
            ELSE CurrencyGet(map, "PESOS")
    IN  IF by_priority = <<>> /\ map # <<>> THEN map[1].flows
        ELSE by_priority

\* parsed.sort(key=date): a stable insertion into a sorted list
InsertByDate(sorted, flow) ==
    LET before == SelectSeq(sorted, LAMBDA f : f.date <= flow.date)
        after == SelectSeq(sorted, LAMBDA f : f.date > flow.date)
    IN  before \o <<flow>> \o after

RECURSIVE ParseFlows(_, _, _)
\* the loop of lines 179-216 and the sort: the parsed list, or the
\* exception of Decimal(str(importe)), which the except clause does not
\* catch
ParseFlows(target, i, parsed) ==
    IF i > Len(target) THEN [outcome |-> "list", flows |-> parsed]
    ELSE IF target[i].fechaPago = 0 THEN ParseFlows(target, i + 1, parsed)
    ELSE IF target[i].importe.k = "bad"
    THEN [outcome |-> "raised", flows |-> <<>>]
    ELSE IF target[i].importe.v > 0
    THEN ParseFlows(target, i + 1,
                    InsertByDate(parsed,
                                 [date |-> target[i].fechaPago,
                                  total_payment |-> target[i].importe.v]))
    ELSE ParseFlows(target, i + 1, parsed)

\* parse_cashflows(raw_data)
ParseCashflows(raw_data) ==
    IF raw_data.kind \in {"none", "empty", "notdict", "errores"}
    THEN [outcome |-> "list", flows |-> <<>>]
    ELSE ParseFlows(TargetCashflows(raw_data.map), 1, <<>>)

\* Variant: whatever was parsed is cached, an empty list too.
StoreParsedAlways(raw_data, parsed) ==
    raw_data.kind \notin {"none", "empty"} /\ parsed.outcome = "list"

\* lines 106-109: the parsed flows are cached and saved when there is raw
\* data and the parsed list is not empty
StoreParsed(raw_data, parsed) ==
    /\ raw_data.kind \notin {"none", "empty"}
    /\ parsed.outcome = "list"
    /\ parsed.flows # <<>>

\* PuenteNetFetcher(): __init__ with _load_cashflows_from_csv
NewPuenteNetFetcher ==
    /\ fetcher = "None"
    /\ fetcher' = "ready"
    /\ \E tickers_in_csv \in SUBSET {"GD30"} :
          cashflow_cache' = LoadCashflowsFromCsv(tickers_in_csv)
    /\ cashflows_return' = [op |-> "init"]
    /\ UNCHANGED <<csv_appends, fetcher_calls, besides_puentenet>>

\* get_cashflows(ticker): the cached list when the ticker is cached (lines
\* 98-100), else what the site sends is parsed, cached and appended to the
\* CSV (lines 102-112); the append may fail on the file
GetCashflows ==
    /\ fetcher = "ready"
    /\ fetcher_calls < MaxFetches
    /\ \E ticker \in TickerSet, raw_data \in RawDataSet,
          save_ok \in BOOLEAN :
          IF ticker \in DOMAIN cashflow_cache
          THEN /\ cashflows_return' =
                     [op |-> "get_cashflows", ticker |-> ticker,
                      was_cached |-> TRUE, fetched |-> FALSE,
                      outcome |-> "list", result |-> cashflow_cache[ticker]]
               /\ UNCHANGED <<cashflow_cache, csv_appends>>
          ELSE \E parsed \in {IF raw_data.kind \in {"none", "empty"}
                               THEN [outcome |-> "list", flows |-> <<>>]
                               ELSE ParseCashflows(raw_data)} :
                  /\ cashflow_cache' =
                        IF StoreParsed(raw_data, parsed)
                        THEN [t \in DOMAIN cashflow_cache \cup {ticker} |->
                                 IF t = ticker THEN parsed.flows
                                 ELSE cashflow_cache[t]]
                        ELSE cashflow_cache
                  /\ csv_appends' =
                        IF StoreParsed(raw_data, parsed) /\ save_ok
                        THEN [csv_appends EXCEPT ![ticker] = @ + 1]
                        ELSE csv_appends
                  /\ cashflows_return' =
                        [op |-> "get_cashflows", ticker |-> ticker,
                         was_cached |-> FALSE, fetched |-> TRUE,
                         outcome |->
                            IF \/ parsed.outcome = "raised"
                               \/ StoreParsed(raw_data, parsed) /\ ~save_ok
                            THEN "raised" ELSE "list",
                         result |->
                            IF StoreParsed(raw_data, parsed) /\ save_ok
                            THEN parsed.flows ELSE <<>>]
    /\ fetcher_calls' = fetcher_calls + 1
    /\ UNCHANGED <<fetcher, besides_puentenet>>

NextPuenteNet ==
    \/ NewPuenteNetFetcher
    \/ GetCashflows

SpecPuenteNet == Init /\ [][NextPuenteNet]_vars

----------------------------------------------------------------------------
(* Properties of calculate_tir *)

\* 1 + x <= 0, written out
AtOrBelowMinusOne(x) == SignOf(FAdd(One, x)) <= 0

\* the call has passed the filter of lines 21-35 and gone on
PastFilter == pc \in {"loop", "test"} \/ (pc = "done" /\ iter > 0)

\* positions of the input flows dated strictly after settlement
LaterPositions == {i \in DOMAIN cashflows : cashflows[i].date > settlement_date}

\* C1: the flows the solver discounts are the input flows dated strictly
\* after settlement_date and no others (a flow dated on settlement_date is
\* dropped), and a call whose flows are all on or before settlement_date
\* returns None, not a number.
C1_FilterAfterSettlement ==
    /\ PastFilter =>
          /\ \A i \in DOMAIN future_cashflows :
                /\ future_cashflows[i].date > settlement_date
                /\ \E j \in DOMAIN cashflows : cashflows[j] = future_cashflows[i]
          /\ Len(future_cashflows) = Cardinality(LaterPositions)
    /\ (pc = "done" /\ LaterPositions = {}) => (result = None /\ iter = 0)

\* a call with a flow dated exactly on settlement and none later has failed
C1_Witness ==
    /\ pc = "done"
    /\ exit = "no_future"
    /\ result = None
    /\ \E i \in DOMAIN cashflows : cashflows[i].date = settlement_date

\* C2: a returned number r is an iterate at which |NPV(r)| < 1e-9 for the
\* filtered flows and the given price; every other return gives None.
C2_ReturnedRateMeetsTolerance ==
    pc = "done" =>
        IF IsNum(result)
        THEN /\ exit = "converged"
             /\ SignOf(FSub(FAbs(Npv(future_cashflows, settlement_date, price, result)),
                            Tol)) < 0
        ELSE result = None /\ exit \in ExitKinds \ {"converged"}

\* a rate returned after at least one Newton step
C2_Witness == pc = "done" /\ IsNum(result) /\ iter > 1 /\ result # Seed

\* Steps the call can still take: 0 once it has returned, and two per pass
\* of the loop that is still allowed.
StepsLeft ==
    CASE pc = "done"  -> 0
      [] pc = "test"  -> 2 * (MaxIter - iter) + 3
      [] pc = "loop"  -> 2 * (MaxIter - iter) + 2
      [] pc = "start" -> 2 * MaxIter + 3
      [] pc = "idle"  -> 2 * MaxIter + 4

C4_BadInputRejected ==
    (pc \notin {"idle", "start"} /\ (cashflows = <<>> \/ SignOf(price) <= 0)) =>
        /\ pc = "done"
        /\ result = None
        /\ iter = 0
        /\ future_cashflows = <<>>
        /\ guess = Seed

\* a call with flows after settlement and a price <= 0 has returned None
C4_Witness ==
    /\ pc = "done"
    /\ SignOf(price) <= 0
    /\ LaterPositions # {}
    /\ result = None

\* C5: at an iterate r with 1 + r <= 0 both npv and d_npv are NaN and the
\* next step returns None; a returned rate r always has 1 + r > 0.
C5_DomainGuard ==
    [][/\ (pc = "test" /\ AtOrBelowMinusOne(guess)) =>
            /\ IsNaN(npv_val)
            /\ IsNaN(d_npv_val)
            /\ pc' = "done"
            /\ result' = None
       /\ IsNum(result') => ~AtOrBelowMinusOne(result')]_vars

\* a Newton step overshot to 1 + r <= 0 and the call returned None
C5_Witness ==
    /\ pc = "done"
    /\ exit = "nan"
    /\ iter > 1
    /\ AtOrBelowMinusOne(guess)
    /\ result = None

\* C6: with numeric npv and d_npv, an iterate within tolerance is returned
\* whatever its derivative; otherwise a zero derivative returns None, and a
\* Newton step (the division) is taken only with a non-zero derivative.
C6_ZeroDerivativeGuard ==
    [][(pc = "test" /\ IsNum(npv_val) /\ IsNum(d_npv_val)) =>
          /\ WithinTolerance(npv_val) => (pc' = "done" /\ result' = guess)
          /\ (~WithinTolerance(npv_val) /\ SignOf(d_npv_val) = 0) =>
                (pc' = "done" /\ result' = None)
          /\ pc' = "loop" => SignOf(d_npv_val) # 0]_vars

\* a pass outside the tolerance with zero derivative has returned None
C6_Witness ==
    /\ pc = "done"
    /\ exit = "zero_derivative"
    /\ SignOf(d_npv_val) = 0
    /\ ~WithinTolerance(npv_val)
    /\ result = None

\* an iterate within tolerance was returned although its derivative is zero
ConvergedAtZeroDerivative ==
    pc = "done" /\ exit = "converged" /\ SignOf(d_npv_val) = 0 /\ result = guess

\* the only flow of the schedule is positive and dated after settlement
SinglePositiveFlow ==
    /\ Len(cashflows) = 1
    /\ cashflows[1].date > settlement_date
    /\ SignOf(cashflows[1].amount) > 0

\* C7: with a single positive flow after settlement and a price in
\* (0, amount), the call converges within 100 passes and never returns
\* None, whatever the days to the flow and however small the price.
C7_SingleFlowConverges ==
    (/\ pc = "done"
     /\ SinglePositiveFlow
     /\ SignOf(price) > 0
     /\ FLt(price, cashflows[1].amount)) =>
        /\ exit = "converged"
        /\ IsNum(result)
        /\ iter <= MaxIter

\* TIR of calculate_irr_from_price_and_payoff(px, amount, 365): the
\* closed form amount / px - 1
ClosedFormTir(px, amount) == IrrOutcome(px, amount, DayCount, "compound").bundle.TIR

\* C8: for a single positive flow 365 days after settlement the rate the
\* solver returns is within 1e-9 of the closed-form compound rate
\* amount / price - 1, for every amount and every price > 0.
C8_SolverMatchesClosedForm ==
    (/\ pc = "done"
     /\ IsNum(result)
     /\ SinglePositiveFlow
     /\ cashflows[1].date - settlement_date = DayCount) =>
        /\ IsNum(ClosedFormTir(price, cashflows[1].amount))
        /\ FLt(FAbs(FSub(result, ClosedFormTir(price, cashflows[1].amount))), Tol)

\* px is below the amount of every flow after settlement
BelowEveryPayoff(px) ==
    \A i \in DOMAIN future_cashflows : FLt(px, future_cashflows[i].amount)

\* C9: for one schedule and settlement date solved at price1 < price2,
\* both above 0 and below the payoff, with both calls returning a rate,
\* the rate at price2 is strictly lower than the rate at price1.
C9_HigherPriceLowerTir ==
    (/\ pc = "done"
     /\ calls >= 2
     /\ IsNum(prev_result)
     /\ IsNum(result)
     /\ SignOf(prev_price) > 0
     /\ FLt(prev_price, price)
     /\ BelowEveryPayoff(price)) =>
        FLt(result, prev_result)

\* every field the dictionary carries is None, or none of them is
AllOrNothing(b) ==
    \/ \A f \in DOMAIN b : b[f] = None
    \/ \A f \in DOMAIN b : b[f] # None

\* C10: a dictionary returned by calculate_irr_from_price_and_payoff or by
\* _calculate_rates_from_api_tir has all of its rate fields (TIR, TEA, TEM,
\* TNA) set or all of them None, for every input, invalid input and
\* arithmetic exception included.
C10_BundleAllOrNothing ==
    rates_pc = "returned" =>
        /\ DOMAIN bundle \subseteq {"TIR", "TEA", "TEM", "TNA"}
        /\ DOMAIN bundle # {}
        /\ AllOrNothing(bundle)

\* the power of line 95 raised after tir and tea had been computed, and
\* the dictionary returned has every field None
C10_Witness ==
    /\ rates_pc = "returned"
    /\ rates_exit = "exception"
    /\ rate_call.fn = "calculate_irr_from_price_and_payoff"
    /\ IsNum(rate_call.current_price)
    /\ IsNum(rate_call.final_payoff)
    /\ \A f \in DOMAIN bundle : bundle[f] = None

\* a dictionary with every rate set
BundleAllSet ==
    /\ rates_pc = "returned"
    /\ rates_exit = "ok"
    /\ \A f \in DOMAIN bundle : IsNum(bundle[f])

\* the bundle has a rate set
NonNull(b) == \E f \in DOMAIN b : b[f] # None

\* C11: in every non-null bundle, from the closed-form function in either
\* mode, from the market-supplied TIR and from the analysis loop, TEA
\* equals TIR (where TIR is carried), TEM equals (1 + TEA) ** (1/12) - 1
\* and TNA equals TEM * 12 exactly.
C11_BundleConsistent ==
    (rates_pc = "returned" /\ NonNull(bundle)) =>
        /\ "TIR" \in DOMAIN bundle => bundle.TEA = bundle.TIR
        /\ bundle.TEM = MonthlyRate(bundle.TEA)
        /\ bundle.TNA = NominalRate(bundle.TEM)

\* a non-null bundle of the simple mode with TEM # 0 and TNA = TEM * 12
C11_Witness ==
    /\ rates_pc = "returned"
    /\ rate_call.fn = "calculate_irr_from_price_and_payoff"
    /\ rate_call.method = "simple"
    /\ NonNull(bundle)
    /\ bundle.TEM # Zero
    /\ bundle.TNA = NominalRate(bundle.TEM)

\* a non-null bundle built by the analysis loop
MainBundleBuilt ==
    /\ rates_pc = "returned"
    /\ rate_call.fn = "run_bond_analysis_and_plotting"
    /\ NonNull(bundle)

\* a non-null bundle built from the market-supplied TIR
ApiBundleBuilt ==
    /\ rates_pc = "returned"
    /\ rate_call.fn = "_calculate_rates_from_api_tir"
    /\ NonNull(bundle)

\* the last call was a facade call on a bond whose maturity date could not
\* be determined or whose days_to_maturity is <= 0
FacadeWithoutMaturity ==
    \/ /\ rate_call.fn = "calculate_irr_for_bond"
       /\ (~rate_call.bond_info.found \/ rate_call.bond_info.days_to_maturity <= 0)
    \/ /\ rate_call.fn = "analyze_bond"
       /\ rate_call.estimation_data.present
       /\ (~rate_call.estimation_data.dated \/ rate_call.estimation_data.days <= 0)
    \/ /\ rate_call.fn = "run_bond_analysis_and_plotting"
       /\ rate_call.days_to_maturity <= 0

\* C12: on every facade path a bond whose maturity date cannot be
\* determined, or whose days_to_maturity is <= 0, gives no result and
\* never a bundle with numeric rates.
C12_NoRatesWithoutMaturity ==
    (rates_pc # "idle" /\ FacadeWithoutMaturity) =>
        \A f \in DOMAIN bundle : ~IsNum(bundle[f])

\* C13: the TIR formula of calculate_irr_from_price_and_payoff is chosen by
\* the method argument alone: "compound" gives
\* (payoff / price) ** (365 / days) - 1, "simple" gives
\* ((payoff - price) / price) * (365 / days), and a method that is neither
\* selects neither of them.
C13_MethodSelectsFormula ==
    (/\ rates_pc = "returned"
     /\ rate_call.fn = "calculate_irr_from_price_and_payoff"
     /\ NonNull(bundle)) =>
        /\ rate_call.method = "compound" =>
              bundle.TIR = CompoundTir(rate_call.current_price,
                                       rate_call.final_payoff,
                                       rate_call.days_to_maturity)
        /\ rate_call.method = "simple" =>
              bundle.TIR = SimpleTir(rate_call.current_price,
                                     rate_call.final_payoff,
                                     rate_call.days_to_maturity)
        /\ rate_call.method \in {"compound", "simple"}

\* C14: the converters of FinancialCalculator return 0 and do not raise on
\* out-of-domain input: calculate_tea_from_tir for tir <= -1 or
\* days_to_maturity <= 0, calculate_tem_from_tea for tea <= -1,
\* calculate_tna_from_tea for tea <= -1 or compounding_frequency <= 0.
C14_FallbackZero ==
    /\ (/\ pure_call.fn = "calculate_tea_from_tir"
        /\ (NumLe(pure_call.tir, MinusOne) \/ pure_call.days_to_maturity <= 0)) =>
           pure_result = Zero
    /\ (/\ pure_call.fn = "calculate_tem_from_tea"
        /\ NumLe(pure_call.tea, MinusOne)) =>
           pure_result = Zero
    /\ (/\ pure_call.fn = "calculate_tna_from_tea"
        /\ (NumLe(pure_call.tea, MinusOne) \/ pure_call.compounding_frequency <= 0)) =>
           pure_result = Zero

\* calculate_tea_from_tir was called with tir = -1 and a positive number
\* of days and returned 0
C14_Witness ==
    /\ pure_call.fn = "calculate_tea_from_tir"
    /\ pure_call.tir = MinusOne
    /\ pure_call.days_to_maturity > 0
    /\ pure_result = Zero

\* the three TEA-to-TEM functions
TeaToTemFunctions ==
    {"calculate_tem_from_tea", "convert_tirea_to_tem", "helpers.calculate_tem_from_tea"}

\* C15: FinancialCalculator.calculate_tem_from_tea, convert_tirea_to_tem
\* and utils.helpers.calculate_tem_from_tea give the same outcome for the
\* same tea on the whole range: (1 + tea) ** (1/12) - 1 for tea > -1 and
\* the fallback 0 for tea <= -1.
C15_TeaToTemAgree ==
    (pure_call.fn \in TeaToTemFunctions /\ IsNum(pure_call.tea)) =>
        /\ pure_result = TemFromTea(pure_call.tea)
        /\ pure_result = ConvertTireaToTem(pure_call.tea)
        /\ pure_result = HelpersTemFromTea(pure_call.tea)
        /\ pure_result = IF FLe(pure_call.tea, MinusOne) THEN Zero
                         ELSE PeriodicRate(pure_call.tea, 12)

\* C16: for every tea, tea <= -1 included,
\* calculate_tna_from_tem(calculate_tem_from_tea(tea)) equals
\* calculate_tna_from_tea(tea, 12).
C16_TnaTwoWays ==
    (/\ pure_call.fn = "calculate_tna_from_tea"
     /\ pure_call.compounding_frequency = 12
     /\ IsNum(pure_call.tea)) =>
        pure_result = TnaFromTem(TemFromTea(pure_call.tea))

\* calculate_tna_from_tea(tea, 12) for a tea > -1 returned a non-zero
\* rate, the one the two-step conversion gives
C16_Witness ==
    /\ pure_call.fn = "calculate_tna_from_tea"
    /\ pure_call.compounding_frequency = 12
    /\ IsNum(pure_call.tea)
    /\ FLt(MinusOne, pure_call.tea)
    /\ pure_result # Zero
    /\ pure_result = TnaFromTem(TemFromTea(pure_call.tea))

\* both ways take the fallback: calculate_tna_from_tea(tea, 12) = 0 for a
\* tea <= -1
TnaFallbackBothWays ==
    /\ pure_call.fn = "calculate_tna_from_tea"
    /\ pure_call.compounding_frequency = 12
    /\ NumLe(pure_call.tea, MinusOne)
    /\ pure_result = Zero

\* calculate_tea_from_tir was called with a tir > -1 and 365 days
OneYearCall ==
    /\ pure_call.fn = "calculate_tea_from_tir"
    /\ pure_call.days_to_maturity = DayCount
    /\ IsNum(pure_call.tir)
    /\ FLt(MinusOne, pure_call.tir)

\* C17 as stated: for every tea > -1,
\* calculate_tea_from_tir(tir = tea, days_to_maturity = 365) returns tea.
C17_OneYearIsIdentity == OneYearCall => pure_result = pure_call.tir

\* the spacing of floating-point numbers just above 1
Epsilon == Dec(1, 1 - Prec)

\* the rounding that 1 + tea and the subtraction of 1 can add up to
RoundingBound(tea) ==
    IF FLt(FAdd(One, tea), One) THEN Epsilon ELSE FMul(Epsilon, FAdd(One, tea))

\* C17: for every tea > -1,
\* calculate_tea_from_tir(tir = tea, days_to_maturity = 365) returns tea up
\* to floating-point rounding: the result differs from tea by at most the
\* machine epsilon times max(1, 1 + tea).
C17_OneYearNearIdentity ==
    OneYearCall =>
        /\ IsNum(pure_result)
        /\ FLe(FAbs(FSub(pure_result, pure_call.tir)), RoundingBound(pure_call.tir))

\* a one-year call whose result is not tea itself, only close to it
C17_Witness ==
    /\ OneYearCall
    /\ pure_result # pure_call.tir
    /\ FLe(FAbs(FSub(pure_result, pure_call.tir)), RoundingBound(pure_call.tir))


\* calculate_macaulay_duration was called
DurationCall == pure_call.fn = "calculate_macaulay_duration"

\* PV_i = amount_i / (1 + tir) ^ (days_i / 365), NaN where it has no value
PresentValue(cf, tir, settle) ==
    FDiv(cf.amount, DiscountFactor(tir, cf.date - settle))

\* the sum of PV_i over flows[1..n]
RECURSIVE SumPv(_, _, _, _)
SumPv(flows, n, tir, settle) ==
    IF n = 0 THEN Zero
    ELSE FAdd(SumPv(flows, n - 1, tir, settle),
              PresentValue(flows[n], tir, settle))

\* the sum of PV_i * (days_i / 365) over flows[1..n]
RECURSIVE SumWeightedPv(_, _, _, _)
SumWeightedPv(flows, n, tir, settle) ==
    IF n = 0 THEN Zero
    ELSE FAdd(SumWeightedPv(flows, n - 1, tir, settle),
              FMul(PresentValue(flows[n], tir, settle),
                   TimeToCashflowYears(flows[n], settle)))

\* the ratio of the two sums over the flows dated strictly after settlement
DurationRatio(cfs, tir, settle) ==
    LET after == FutureCashflows(cfs, settle)
    IN  FDiv(SumWeightedPv(after, Len(after), tir, settle),
             SumPv(after, Len(after), tir, settle))

\* the sum of the present values of the flows after settlement is 0
SumPvIsZero(cfs, tir, settle) ==
    LET after == FutureCashflows(cfs, settle)
        total == SumPv(after, Len(after), tir, settle)
    IN  IsNum(total) /\ total.m = 0

\* some flow after settlement has no present value: its discount factor
\* is undefined or zero
Undiscountable(cfs, tir, settle) ==
    \E i \in DOMAIN cfs :
        /\ cfs[i].date > settle
        /\ LET discount == DiscountFactor(tir, cfs[i].date - settle)
           IN  discount = Raised \/ (IsNum(discount) /\ discount.m = 0)

DurationUndiscountable ==
    /\ DurationCall
    /\ pure_call.tir # None
    /\ Undiscountable(pure_call.cashflows, pure_call.tir,
                      pure_call.settlement_date)
    /\ pure_result = None

\* null came back because the present values cancel
DurationPvCancels ==
    /\ DurationCall
    /\ pure_call.tir # None
    /\ \E i \in DOMAIN pure_call.cashflows :
          /\ pure_call.cashflows[i].date > pure_call.settlement_date
          /\ pure_call.cashflows[i].amount # Zero
    /\ ~Undiscountable(pure_call.cashflows, pure_call.tir,
                       pure_call.settlement_date)
    /\ pure_result = None


\* a projection was asked for a target that is not in the future
BoncerTargetNotFuture ==
    /\ pure_call.fn = "BONCERCalculator.estimate_future_cer"
    /\ DateLe(pure_call.target_date, pure_call.today)

ServiceTargetNotFuture ==
    /\ pure_call.fn = "CERService.estimate_cer_at_maturity"
    /\ DateLe(pure_call.maturity_date, pure_call.today)

CalculatorTargetNotFuture ==
    /\ pure_call.fn = "CERCalculator.estimate_cer_at_maturity"
    /\ pure_call.days_to_maturity <= 0

\* C19: every CER forward projection returns the current index unchanged
\* when the target is not in the future: BONCERCalculator.estimate_future_cer
\* and CERService.estimate_cer_at_maturity for target_date <= today, and
\* CERCalculator.estimate_cer_at_maturity for days_to_maturity <= 0, for any
\* monthly inflation rate.
C19_NoProjectionIntoThePast ==
    /\ BoncerTargetNotFuture => pure_result = pure_call.current_cer
    /\ ServiceTargetNotFuture => pure_result = pure_call.latest_cer
    /\ CalculatorTargetNotFuture => FEq(pure_result, pure_call.current_cer_index)

\* the two guarded projections on their own
GuardedProjectionsKeepIndex ==
    /\ BoncerTargetNotFuture => pure_result = pure_call.current_cer
    /\ (ServiceTargetNotFuture /\ ~NoCer(pure_call.latest_cer))
           => pure_result = pure_call.latest_cer

\* a calculator was constructed while an index value was supplied or could
\* be had from the data source
IndexAvailable ==
    /\ pure_call.fn \in {"CERCalculator.__init__", "BONCERCalculator.__init__"}
    /\ \/ pure_call.latest_cer # None
       \/ pure_call.fn = "BONCERCalculator.__init__" /\ pure_call.current_cer # None

\* the value that is supplied, else the one the data source holds
AvailableIndex ==
    IF pure_call.fn = "BONCERCalculator.__init__" /\ pure_call.current_cer # None
    THEN pure_call.current_cer
    ELSE pure_call.latest_cer

\* C20: the hardcoded CER constant is the current index only when no index
\* value is available from the caller or a data source; whenever a value is
\* supplied or obtainable the calculators take that value, not the
\* constant.
C20_ConstantOnlyAsFallback ==
    /\ IndexAvailable => pure_result = AvailableIndex
    /\ (pure_call.fn \in {"CERCalculator.__init__", "BONCERCalculator.__init__"}
          /\ ~IndexAvailable) => pure_result = Dec(HardcodedCer, 0)

\* a supplied index other than 0 is the one BONCERCalculator keeps
SuppliedIndexKept ==
    (/\ pure_call.fn = "BONCERCalculator.__init__"
     /\ ~NoCer(pure_call.current_cer)) => pure_result = pure_call.current_cer


\* the breakeven evaluation was made
BreakevenCall == pure_call.fn = "carry_return_at_breakeven"

\* 1e-6 at the precision of the source, and the rounding of five
\* operations where the model carries fewer digits
BreakevenTolerance == IF Prec >= 8 THEN Dec(1, -6) ELSE Dec(5, 1 - Prec)

CarryCall ==
    pure_call.fn \in {"calculate_carry_trade_returns",
                      "run_bond_analysis_and_plotting"}

\* C22: the carry-trade projection never divides by zero: for any fetched
\* price, any current MEP rate and any caller-supplied list of future FX
\* scenarios, no division of calculate_carry_trade_returns or of the
\* main-loop carry block has a divisor that is zero.
C22_NoDivisionByZero ==
    CarryCall => \A d \in pure_result.divisors : IsNum(d) /\ d.m # 0

\* the main-loop carry block on its own divides by nothing that is zero
MainCarryDivisorsNonZero ==
    pure_call.fn = "run_bond_analysis_and_plotting"
        => \A d \in pure_result.divisors : IsNum(d) /\ d.m # 0

\* the main-loop carry block ran with all its divisions
MainCarryRan ==
    /\ pure_call.fn = "run_bond_analysis_and_plotting"
    /\ pure_result.status = "kept"
    /\ pure_result.carry

\* a priced bond that has not matured and whose TIR is exactly 0
ZeroTirBond ==
    /\ CarryCall
    /\ ~Falsy(pure_call.price)
    /\ pure_call.days_to_maturity > 0
    /\ pure_result.tir = Zero

\* C29: a bond whose TIR is exactly 0 is treated as successfully priced: it
\* is kept in the results and is not skipped or reported as missing.
C29_ZeroTirIsKept == ZeroTirBond => pure_result.status = "kept"

\* a bond with a TIR other than 0 is kept by both loops
NonZeroTirKept ==
    (/\ CarryCall
     /\ ~Falsy(pure_call.price)
     /\ pure_call.days_to_maturity > 0
     /\ ~Falsy(pure_result.tir)) => pure_result.status \in {"kept", "raised"}


\* get_client() handed the client out
ClientReturned ==
    /\ connector_return.op = "get_client"
    /\ connector_return.outcome = "client"

\* C25: after any sequence of constructions and get_client() calls,
\* get_client() only returns a client for which a login has completed
\* successfully; otherwise it raises.
C25_ClientIsLoggedIn == ClientReturned => login_done

\* once a login has succeeded the client handed out is a logged-in one
ClientAfterLogin ==
    (ClientReturned /\ connector_return.expires_before # NoExpiry) => login_done

\* C26: PPIAPIConnector is a singleton: every construction returns the same
\* instance, _initialize runs at most once however many times the class is
\* constructed, and get_client() re-authenticates before returning whenever
\* the current time is within 5 minutes of, or past, the tracked expiry.
C26_SingletonAndRefresh ==
    /\ instances_created <= 1
    /\ initialize_runs <= 1
    /\ (connector_return.op = "construct" /\ connector_return.outcome = "instance")
          => connector_return.instance = 1
    /\ (/\ connector_return.op = "get_client"
        /\ connector_return.expires_before # NoExpiry
        /\ connector_return.at >= connector_return.expires_before - RefreshMargin)
          => connector_return.reauthenticated

\* get_client() logged in again inside the last 5 minutes of the session
C26_Witness ==
    /\ ClientReturned
    /\ connector_return.reauthenticated
    /\ connector_return.at < connector_return.expires_before
    /\ token_expires_at = connector_return.at + SessionMinutes
    /\ initialize_runs = 1


\* get_price was called; the key and the entry it concerns
PriceCall == price_return.op = "get_price"

PriceCallKey == CacheKey(price_return.instrument_type)

PriceCallHeld ==
    CacheHolds(price_return.cache_before, PriceCallKey, price_return.ticker)

\* the cache changes only by a non-null price of a known instrument type
CacheWrittenOnlyByApiPrice ==
    (PriceCall /\ cached_prices # price_return.cache_before) =>
        /\ price_return.answer.kind = "data"
        /\ price_return.answer.price.k = "num"
        /\ PriceCallKey \in CacheKeys
        /\ cached_prices =
              [price_return.cache_before EXCEPT
                  ![PriceCallKey][price_return.ticker] = price_return.answer.price.v]

\* no data, or an exception of the API: the cached price with tir null
\* when the cache holds the ticker, and the exception goes up when the API
\* raised and it does not
FallbackWhenApiGaveNothing ==
    /\ (PriceCall /\ price_return.answer.kind \in {"empty", "raises"} /\ PriceCallHeld)
          => price_return.result =
                [outcome |-> "dict",
                 price |-> price_return.cache_before[PriceCallKey][price_return.ticker],
                 tir |-> 0, from_cache |-> TRUE]
    /\ (PriceCall /\ price_return.answer.kind = "raises" /\ ~PriceCallHeld)
          => price_return.result.outcome = "raised"

\* C27: get_price falls back to the cache only when the API gave nothing:
\* the cache entry is written only when the API returned a non-null price
\* for a known instrument type; when the API returns no data or raises and
\* the cache holds the ticker, the cached price is returned with tir null;
\* when the API raises and the cache does not hold the ticker the exception
\* propagates; a cached price is never returned when the API answered with
\* data.
C27_CacheOnlyWhenApiGaveNothing ==
    /\ CacheWrittenOnlyByApiPrice
    /\ FallbackWhenApiGaveNothing
    /\ (PriceCall /\ price_return.answer.kind = "data")
          => ~price_return.result.from_cache

\* get_cashflows was called
CashflowsCall == cashflows_return.op = "get_cashflows"

\* no ticker of the cache has an empty list
NoEmptyCacheEntry ==
    \A t \in DOMAIN cashflow_cache : cashflow_cache[t] # <<>>

\* a fetch that gave no flows, or raised while parsing, left the ticker out
\* of the cache
FailedFetchNotCached ==
    (/\ CashflowsCall
     /\ cashflows_return.fetched
     /\ cashflows_return.result = <<>>
     /\ csv_appends[cashflows_return.ticker] = 0)
        => \/ cashflows_return.ticker \notin DOMAIN cashflow_cache
           \/ cashflows_return.outcome = "raised"

\* the site is asked exactly when the ticker is not cached, and a cached
\* ticker is answered with its cached list
FetchedIffNotCached ==
    CashflowsCall =>
        /\ cashflows_return.fetched = ~cashflows_return.was_cached
        /\ cashflows_return.was_cached =>
              /\ cashflows_return.outcome = "list"
              /\ cashflows_return.result = cashflow_cache[cashflows_return.ticker]

\* C28: after any sequence of get_cashflows calls the in-memory cache
\* never maps a ticker to an empty list: a failed or empty fetch is not
\* cached, so a later call for the ticker fetches again; a cached ticker
\* is returned without any fetch; and the flows of a ticker are appended
\* to the CSV at most once per fetcher instance.
C28_CacheHoldsOnlyFetchedFlows ==
    /\ NoEmptyCacheEntry
    /\ FailedFetchNotCached
    /\ FetchedIffNotCached
    /\ \A t \in TickerSet : csv_appends[t] <= 1

\* a ticker whose first fetch failed was fetched again, cached and
\* appended, and is now answered from the cache
C28_Witness ==
    /\ CashflowsCall
    /\ fetcher_calls = 3
    /\ cashflows_return.was_cached
    /\ cashflows_return.ticker = "AL30"
    /\ csv_appends["AL30"] = 1
    /\ Len(cashflows_return.result) = 2

\* a call of calculate_tir that gave up
FailedCall == pc = "done" /\ exit \in FailureKinds

\* a failed call returns the value of its return statement
FailureReturns == FailedCall => result = ReturnedOn(exit)

\* C23: a failed yield computation tells the caller which kind of failure
\* occurred: what calculate_tir returns on bad input, on no future cash
\* flows, on a domain error, on a stalled derivative and on non-convergence
\* differs between any two of these kinds.
C23_FailureKindsDistinguishable ==
    FailedCall =>
        \A other \in FailureKinds \ {exit} : result # ReturnedOn(other)

\* reverse_calculate_market_expectations was called
ExpectationsCall == pure_call.fn = "reverse_calculate_market_expectations"

\* calculate_irr_from_price_and_payoff returned
IrrCall ==
    /\ rates_pc # "idle"
    /\ rate_call.fn = "calculate_irr_from_price_and_payoff"

\* calculate_irr_from_price_and_payoff always returns its dictionary
IrrAlwaysReturns ==
    IrrCall => (rates_pc = "returned" /\ DOMAIN bundle = {"TIR", "TEA", "TEM", "TNA"})

\* calculate_macaulay_duration returns a number, NaN or None
DurationAlwaysReturns == DurationCall => pure_result # Raised

\* with days_to_maturity # 0, a positive nominal payoff and 1 + tir > 0,
\* a positive price gives the expectations
ExpectationsInDomain ==
    (/\ ExpectationsCall
     /\ pure_call.days_to_maturity # 0
     /\ pure_call.nominal_payoff.m > 0
     /\ pure_call.current_price.m > 0
     /\ FLt(MinusOne, pure_call.market_tir)) => pure_result.status = "ok"

\* C24: the core computations signal failure by their return value and
\* never raise to the caller: calculate_irr_from_price_and_payoff and
\* reverse_calculate_market_expectations return for every input, and
\* reverse_calculate_market_expectations with days_to_maturity <= 0 returns
\* implied_monthly_inflation = 0.
C24_CoreNeverRaises ==
    /\ IrrAlwaysReturns
    /\ ExpectationsCall =>
          /\ pure_result.status = "ok"
          /\ pure_call.days_to_maturity <= 0 =>
                pure_result.implied_monthly_inflation = Zero

\* _calculate_irr_newton_raphson has returned
NewtonRaphsonDone == boncer_pc = "done"

\* abs(NPV(rate)) of the call, for the rate it returned
ReturnedNpv ==
    FAbs(BoncerNpv(boncer_call.present_value, boncer_call.cash_flows,
                   boncer_result.returned))

\* the loop makes at most max_iterations passes, each at a rate above -1,
\* and the call gives None when it returns no rate
NewtonRaphsonBounded ==
    /\ boncer_iteration <= BoncerMaxIterations
    /\ boncer_in_domain
    /\ NewtonRaphsonDone =>
          (boncer_result.by \in {"not_converged", "small_derivative"} <=>
             boncer_result.returned = None)

\* a rate returned by the test of the npv meets the tolerance
NpvReturnMeetsTolerance ==
    (NewtonRaphsonDone /\ boncer_result.by = "npv") =>
        FLt(ReturnedNpv, BoncerTolerance)

\* C30: _calculate_irr_newton_raphson terminates within max_iterations,
\* evaluates the discount factor only at rates with 1 + tir > 0, and every
\* rate it returns satisfies |NPV(rate)| < tolerance for the deflated cash
\* flows; otherwise it returns None.
C30_ReturnedRateMeetsTolerance ==
    /\ NewtonRaphsonBounded
    /\ (NewtonRaphsonDone /\ boncer_result.returned # None) =>
          FLt(ReturnedNpv, BoncerTolerance)

====
